---- MODULE Spec2Model ----
(***************************************************************************)
(* Model of rhai-autodocs: the comment section extractor (src/src/item.rs),*)
(* the signature synthesizer (src/src/function.rs), the function grouper   *)
(* and module builder (src/src/module.rs) and the item orderer             *)
(* (src/src/export.rs), the glossary (src/src/module.rs) and the document *)
(* map of the renderer (src/src/generate.rs).                              *)
(*                                                                         *)
(* A Rust String is a sequence of one-character strings, so that the       *)
(* string operations of the code (contains, split_once, replace, lines,    *)
(* parse) are computed and not assumed.  Option<T> is a sequence of length *)
(* 0 (None) or 1 (Some).                                                   *)
(***************************************************************************)
EXTENDS Integers, Sequences, FiniteSets, TLC

VARIABLES
    \* Section::extract_sections (item.rs:235-275)
    doc_lines,        \* docs.lines(): the lines of the comment block
    pos,              \* number of lines consumed by for_each
    in_code_block,    \* let mut in_code_block
    current_name,     \* let mut current_name
    current_body,     \* let mut current_body: Vec<String>
    sections,         \* let mut sections: Vec<Section>
    spc,              \* position of extract_sections: "idle" | "scan" | "done"
    rescan_of,        \* Option<String>: the section body docs was taken from, if any
    \* Item::remove_test_code (item.rs:209-225)
    rt_input,         \* doc_comments: &str
    rt_output,        \* Option<String>: the returned string, once returned
    \* generate_module_documentation_inner (module.rs:84-143)
    options,          \* &Options
    metadata,         \* &ModuleMetadata
    pc,               \* position of the builder
    ti,               \* index of the custom type the first loop is at
    items,            \* let mut items: Vec<Option<Item>>
    function_groups,  \* the HashMap returned by group_functions
    pending,          \* keys of the HashMap the second loop has not visited yet
    md_items,         \* md.items
    result,           \* Option<Result>: <<>> while running, <<"Ok">> or <<"Err">>
    glossary_groups,  \* Option<HashMap>: the groups of generate_module_glossary_inner
    glossary,         \* Option<Result<Glossary>>: generate_module_glossary_inner's value
    \* FunctionMetadata::generate_function_definition and Definition::display
    \* (function.rs:23-29, 229-295)
    fn_metadata,      \* &self: the function record
    definition,       \* Option<Definition>: the value of Definition::new, once built
    signature,        \* Option<String>: the value of display, once rendered
    sgc,              \* position of the synthesizer: "idle" | "new" | "display" | "done"
    \* generate_module_documentation (module.rs:70-82),
    \* generate_module_documentation_inner with sub-modules (module.rs:84-143) and
    \* generate (generate.rs:337-362)
    json_fns,         \* Option<Result<String>>: the value of engine.gen_fn_metadata_to_json
    tree_options,     \* &Options
    tree_metadata,    \* &ModuleMetadata of the global module
    stack,            \* the calls of generate_module_documentation_inner in progress
    tree_result,      \* Option<Result<Documentation, Error>>: the value of the outer call
    documents,        \* Option<Result<HashMap<String, String>>>: the value of generate
    gstack,           \* the calls of generate_module_glossary_inner in progress
    tree_glossary,    \* Option<Result<Glossary>>: the value of the outer glossary call
    glossary_document, \* Option: the glossary generate_with_glossary returns
    tpc               \* "idle" | "start" | "build" | "built" | "failed" | "rendered"

scanVars == <<doc_lines, pos, in_code_block, current_name, current_body, sections, spc,
              rescan_of>>
rtVars == <<rt_input, rt_output>>
buildVars == <<options, metadata, pc, ti, items, function_groups, pending, md_items, result,
               glossary_groups, glossary>>
sigVars == <<fn_metadata, definition, signature, sgc>>
treeVars == <<json_fns, tree_options, tree_metadata, stack, tree_result, documents, tpc,
              gstack, tree_glossary, glossary_document>>
vars == <<doc_lines, pos, in_code_block, current_name, current_body, sections, spc,
          rescan_of,
          rt_input, rt_output,
          options, metadata, pc, ti, items, function_groups, pending, md_items, result,
          glossary_groups, glossary,
          fn_metadata, definition, signature, sgc,
          json_fns, tree_options, tree_metadata, stack, tree_result, documents, tpc,
          gstack, tree_glossary, glossary_document>>

----------------------------------------------------------------------------
(* Option<T> *)
None == <<>>
Some(x) == <<x>>
IsSome(o) == Len(o) = 1
IsNone(o) == Len(o) = 0
Unwrap(o) == o[1]

----------------------------------------------------------------------------
(* Rust str operations, on sequences of characters *)

NL == "\n"

\* str::starts_with
StartsWith(s, p) == Len(p) <= Len(s) /\ SubSeq(s, 1, Len(p)) = p

\* str::ends_with
EndsWith(s, p) == Len(p) <= Len(s) /\ SubSeq(s, Len(s) - Len(p) + 1, Len(s)) = p

\* the start indexes of the occurrences of p in s
Occurrences(s, p) == {i \in 1..(Len(s) - Len(p) + 1) : SubSeq(s, i, i + Len(p) - 1) = p}

\* str::contains
Contains(s, p) == Occurrences(s, p) # {}

MinOf(S) == CHOOSE x \in S : \A y \in S : x <= y
MaxOf(S) == CHOOSE x \in S : \A y \in S : y <= x

\* str::split_once: Option<(&str, &str)>, split at the first occurrence
split_once(s, p) ==
    IF Contains(s, p)
    THEN LET i == MinOf(Occurrences(s, p))
         IN  Some(<<SubSeq(s, 1, i - 1), SubSeq(s, i + Len(p), Len(s))>>)
    ELSE None

\* str::rsplit_once: Option<(&str, &str)>, split at the last occurrence
rsplit_once(s, p) ==
    IF Contains(s, p)
    THEN LET i == MaxOf(Occurrences(s, p))
         IN  Some(<<SubSeq(s, 1, i - 1), SubSeq(s, i + Len(p), Len(s))>>)
    ELSE None

\* str::replace: every non-overlapping occurrence, left to right
RECURSIVE replace(_, _, _)
replace(s, p, r) ==
    IF Len(s) < Len(p) THEN s
    ELSE IF SubSeq(s, 1, Len(p)) = p
         THEN r \o replace(SubSeq(s, Len(p) + 1, Len(s)), p, r)
         ELSE <<s[1]>> \o replace(SubSeq(s, 2, Len(s)), p, r)

\* the carriage return
CR == "\r"

\* str::lines, the end of one line: a line ended by "\n" loses one "\r" before it
StripCR(line) ==
    IF line # <<>> /\ line[Len(line)] = CR THEN SubSeq(line, 1, Len(line) - 1) ELSE line

\* str::lines: a line ends at "\n" or "\r\n"; a final empty piece is not a line,
\* and a "\r" that no "\n" follows stays in its line
RECURSIVE lines(_)
lines(s) ==
    IF s = <<>> THEN <<>>
    ELSE IF Contains(s, <<NL>>)
         THEN LET i == MinOf(Occurrences(s, <<NL>>))
              IN  <<StripCR(SubSeq(s, 1, i - 1))>> \o lines(SubSeq(s, i + 1, Len(s)))
         ELSE <<s>>

\* [String]::join
RECURSIVE join(_, _)
join(v, sep) ==
    IF v = <<>> THEN <<>>
    ELSE IF Len(v) = 1 THEN v[1]
         ELSE v[1] \o sep \o join(Tail(v), sep)

----------------------------------------------------------------------------
(* Literals of the code *)

\* export.rs:7  RHAI_ITEM_INDEX_PATTERN = "# rhai-autodocs:index:"
RHAI_ITEM_INDEX_PATTERN ==
    <<"#", " ", "r", "h", "a", "i", "-", "a", "u", "t", "o", "d", "o", "c", "s",
      ":", "i", "n", "d", "e", "x", ":">>

\* the character U+0060 (grave accent), which a TLA+ string literal cannot hold
BT == "U+0060"
\* the code fence marker: three grave accents
FENCE == <<BT, BT, BT>>
\* the heading marker
HEADING == <<"#", " ">>
DESCRIPTION == <<"D", "e", "s", "c", "r", "i", "p", "t", "i", "o", "n">>

----------------------------------------------------------------------------
(* Item: the comment formatting pipeline (item.rs:174-225) *)

\* item.rs:189  .filter(|l| !l.contains(RHAI_ITEM_INDEX_PATTERN))
RECURSIVE FilterIndexLines(_)
FilterIndexLines(v) ==
    IF v = <<>> THEN <<>>
    ELSE (IF ~Contains(v[1], RHAI_ITEM_INDEX_PATTERN) THEN <<v[1]>> ELSE <<>>)
         \o FilterIndexLines(Tail(v))

\* Item::remove_extra_tokens (item.rs:185-194)
remove_extra_tokens(dc) ==
    [k \in 1..Len(dc) |-> join(FilterIndexLines(lines(dc[k])), <<NL>>)]

\* Item::fmt_doc_comments (item.rs:197-203)
fmt_doc_comments(dc) ==
    replace(replace(replace(replace(replace(dc,
        <<"/", "/", "/", " ">>, <<>>),
        <<"/", "/", "/">>, <<>>),
        <<"/", "*", "*">>, <<>>),
        <<"*", "*", "/">>, <<>>),
        <<"*", "*", "/">>, <<>>)

\* a test that hides every line of a code block that starts with the hash sign
IsTestCode_AnyHash(line, in_block) == in_block /\ StartsWith(line, <<"#">>)

\* item.rs:219  in_code_block && line.starts_with("# ")
IsTestCode(line, in_block) == in_block /\ StartsWith(line, HEADING)

\* the loop of Item::remove_test_code (item.rs:212-222): formatted after the lines v
RECURSIVE RemoveLoop(_, _, _)
RemoveLoop(v, in_block, formatted) ==
    IF v = <<>> THEN formatted
    ELSE LET line == v[1] IN
         IF StartsWith(line, FENCE)
         THEN RemoveLoop(Tail(v), ~in_block, Append(formatted, line))
         ELSE IF ~IsTestCode(line, in_block)
              THEN RemoveLoop(Tail(v), in_block, Append(formatted, line))
              ELSE RemoveLoop(Tail(v), in_block, formatted)

\* Item::remove_test_code (item.rs:209-225)
remove_test_code(doc_comments) ==
    join(RemoveLoop(lines(doc_comments), FALSE, <<>>), <<NL>>)

\* format_comments that leaves the lines as they were pushed
format_comments_Raw(doc_comments) == join(doc_comments, <<>>)

\* Item::format_comments (item.rs:176-182)
format_comments(doc_comments) ==
    LET removed_extra_tokens == join(remove_extra_tokens(doc_comments), <<NL>>)
        remove_comments == fmt_doc_comments(removed_extra_tokens)
    IN  remove_test_code(remove_comments)

----------------------------------------------------------------------------
(* Section::extract_sections (item.rs:235-275), one action per line *)

\* item.rs:243  line.split_once(fence).is_some() toggles in_code_block
ToggleCodeBlock(line, in_block) ==
    IF IsSome(split_once(line, FENCE)) THEN ~in_block ELSE in_block

\* a heading test that takes a directive line for a heading
StartsSection_IgnoringDirective(line, in_block) ==
    /\ IsSome(split_once(line, HEADING))
    /\ ~in_block

\* item.rs:247-249, without the test of in_code_block
StartsSection_IgnoringFence(line, in_block) ==
    /\ IsSome(split_once(line, HEADING))
    /\ ~Contains(line, RHAI_ITEM_INDEX_PATTERN)

\* item.rs:247-249  Some((_prefix, name)) if !in_code_block && !line.contains(PATTERN)
StartsSection(line, in_block) ==
    /\ IsSome(split_once(line, HEADING))
    /\ ~in_block
    /\ ~Contains(line, RHAI_ITEM_INDEX_PATTERN)

\* a section that is pushed without its name
NewSection_Untitled(name, body) == [name |-> <<>>, body |-> format_comments(body)]

\* item.rs:251-254 and 268-271  Section { name: take(current_name), body: format_comments(..) }
NewSection(name, body) == [name |-> name, body |-> format_comments(body)]

\* item.rs:242-265: the closure of for_each, on the lines v that are left
RECURSIVE ExtractLoop(_, _, _, _, _)
ExtractLoop(v, in_block, name, body, found) ==
    IF v = <<>>
    THEN IF body # <<>> THEN Append(found, NewSection(name, body)) ELSE found
    ELSE IF StartsSection(v[1], ToggleCodeBlock(v[1], in_block))
    THEN ExtractLoop(Tail(v), ToggleCodeBlock(v[1], in_block),
                     Unwrap(split_once(v[1], HEADING))[2], <<>>,
                     Append(found, NewSection(name, body)))
    ELSE IF IsSome(split_once(v[1], HEADING))
    THEN ExtractLoop(Tail(v), ToggleCodeBlock(v[1], in_block), name, body, found)
    ELSE ExtractLoop(Tail(v), ToggleCodeBlock(v[1], in_block), name,
                     Append(body, v[1] \o <<NL>>), found)

\* Section::extract_sections (item.rs:235-275) as a function of docs: the value
\* the actions below reach line by line
extract_sections(docs) == ExtractLoop(lines(docs), FALSE, DESCRIPTION, <<>>, <<>>)

Scanning == spc = "scan" /\ pos < Len(doc_lines)
Line == doc_lines[pos + 1]

\* item.rs:248-258: a heading outside a code block closes the current section
StartSection ==
    /\ Scanning
    /\ StartsSection(Line, ToggleCodeBlock(Line, in_code_block))
    /\ in_code_block' = ToggleCodeBlock(Line, in_code_block)
    /\ sections' = Append(sections, NewSection(current_name, current_body))
    /\ current_name' = Unwrap(split_once(Line, HEADING))[2]
    /\ current_body' = <<>>
    /\ pos' = pos + 1
    /\ UNCHANGED <<doc_lines, spc, rescan_of>>
    /\ UNCHANGED rtVars /\ UNCHANGED buildVars /\ UNCHANGED sigVars /\ UNCHANGED treeVars

\* item.rs:261  Some(_) => {}: the line is appended nowhere
SkipLine ==
    /\ Scanning
    /\ IsSome(split_once(Line, HEADING))
    /\ ~StartsSection(Line, ToggleCodeBlock(Line, in_code_block))
    /\ in_code_block' = ToggleCodeBlock(Line, in_code_block)
    /\ pos' = pos + 1
    /\ UNCHANGED <<doc_lines, current_name, current_body, sections, spc, rescan_of>>
    /\ UNCHANGED rtVars /\ UNCHANGED buildVars /\ UNCHANGED sigVars /\ UNCHANGED treeVars

\* item.rs:263  None => current_body.push(format!("{line}\n"))
AppendLine ==
    /\ Scanning
    /\ IsNone(split_once(Line, HEADING))
    /\ in_code_block' = ToggleCodeBlock(Line, in_code_block)
    /\ current_body' = Append(current_body, Line \o <<NL>>)
    /\ pos' = pos + 1
    /\ UNCHANGED <<doc_lines, current_name, sections, spc, rescan_of>>
    /\ UNCHANGED rtVars /\ UNCHANGED buildVars /\ UNCHANGED sigVars /\ UNCHANGED treeVars

\* item.rs:267-274: the last section is pushed when it has lines; sections is returned
FinishSections ==
    /\ spc = "scan" /\ pos = Len(doc_lines)
    /\ IF current_body # <<>>
       THEN /\ sections' = Append(sections, NewSection(current_name, current_body))
            /\ current_name' = <<>>
       ELSE UNCHANGED <<sections, current_name>>
    /\ spc' = "done"
    /\ UNCHANGED <<doc_lines, pos, in_code_block, current_body, rescan_of>>
    /\ UNCHANGED rtVars /\ UNCHANGED buildVars /\ UNCHANGED sigVars /\ UNCHANGED treeVars

----------------------------------------------------------------------------
(* Inputs *)

\* the sequences over S of length at most n
BSeq(S, n) == UNION {[1..k -> S] : k \in 0..n}

MaxLines == 5

DOC == <<"/", "/", "/", " ">>
TEXT_A == DOC \o <<"a">>
TEXT_B == <<"b">>
ARGS == <<"A", "r", "g", "s">>
RETURN == <<"R", "e", "t", "u", "r", "n">>
HEADING_ARGS == DOC \o HEADING \o ARGS
HEADING_RETURN == HEADING \o RETURN
INDEX_1 == RHAI_ITEM_INDEX_PATTERN \o <<"1">>
\* a heading marker with no text after it
HEADING_BARE == DOC \o HEADING
\* a text line that keeps carriage returns: str::lines returns it for
\* "c\r\r\r\n", and for a text that ends with "c\r\r"
TEXT_CR == <<"c", CR, CR>>
\* a blank line of a doc comment: the marker alone
MARKER == <<"/", "/", "/">>

\* the lines a comment block is made of
SectionLines ==
    {TEXT_A, TEXT_B, TEXT_CR, MARKER, HEADING_ARGS, HEADING_RETURN, HEADING_BARE, FENCE,
     INDEX_1}

\* the lines of the parts of a block that has a description, a section Args and
\* a section Return (examples/docusaurus/main.rs:31-46): text, blank lines and
\* directive lines
PartLines == {TEXT_A, TEXT_B, TEXT_CR, MARKER, INDEX_1}
\* the number of lines of such a block, its two headings included
MaxBlockLines == 8
\* the description d, the heading Args, the lines a, the heading Return, the lines r
RoundTripBlock(d, a, r) == d \o <<HEADING_ARGS>> \o a \o <<HEADING_RETURN>> \o r

ScanIdle ==
    /\ doc_lines = <<>> /\ pos = 0 /\ in_code_block = FALSE
    /\ current_name = <<>> /\ current_body = <<>> /\ sections = <<>> /\ spc = "idle"
    /\ rescan_of = None

RtIdle == rt_input = <<>> /\ rt_output = None

BuildIdle ==
    /\ options = [items_order |-> "Alphabetical"]
    /\ metadata = [custom_types |-> <<>>, functions |-> <<>>]
    /\ pc = "idle" /\ ti = 0 /\ items = <<>> /\ function_groups = <<>>
    /\ pending = {} /\ md_items = <<>> /\ result = None
    /\ glossary_groups = None /\ glossary = None

SigIdle ==
    /\ fn_metadata = [name |-> <<>>, num_params |-> 0, params |-> None,
                      return_type |-> None, doc_comments |-> None]
    /\ definition = None /\ signature = None /\ sgc = "idle"

TreeIdle ==
    /\ json_fns = None
    /\ tree_options = [items_order |-> "Alphabetical"]
    /\ tree_metadata = [doc |-> None, functions |-> <<>>, custom_types |-> <<>>,
                        modules |-> <<>>]
    /\ stack = <<>> /\ tree_result = None /\ documents = None /\ tpc = "idle"
    /\ gstack = <<>> /\ tree_glossary = None /\ glossary_document = None

\* item.rs:236-239: the locals of extract_sections on entry
InitSections ==
    /\ doc_lines \in BSeq(SectionLines, MaxLines)
    /\ pos = 0
    /\ in_code_block = FALSE
    /\ current_name = DESCRIPTION
    /\ current_body = <<>>
    /\ sections = <<>>
    /\ spc = "scan"
    /\ rescan_of = None
    /\ RtIdle /\ BuildIdle /\ SigIdle /\ TreeIdle

\* item.rs:235-239: extract_sections is entered again, docs being the body of a
\* section it returned
ExtractBody ==
    /\ spc = "done" /\ rescan_of = None
    /\ \E k \in 1..Len(sections) :
          /\ rescan_of' = Some(sections[k].body)
          /\ doc_lines' = lines(sections[k].body)
    /\ pos' = 0
    /\ in_code_block' = FALSE
    /\ current_name' = DESCRIPTION
    /\ current_body' = <<>>
    /\ sections' = <<>>
    /\ spc' = "scan"
    /\ UNCHANGED rtVars /\ UNCHANGED buildVars /\ UNCHANGED sigVars /\ UNCHANGED treeVars

NextSections == StartSection \/ SkipLine \/ AppendLine \/ FinishSections \/ ExtractBody

SpecSections == InitSections /\ [][NextSections]_vars

\* item.rs:236-239: the locals of extract_sections on entry, docs being a block
\* with a description, a section Args and a section Return
InitRoundTrip ==
    /\ \E n1, n2, n3 \in 1..MaxBlockLines :
          /\ n1 + n2 + n3 + 2 <= MaxBlockLines
          /\ \E d \in [1..n1 -> PartLines], a \in [1..n2 -> PartLines],
                r \in [1..n3 -> PartLines] :
                doc_lines = RoundTripBlock(d, a, r)
    /\ pos = 0
    /\ in_code_block = FALSE
    /\ current_name = DESCRIPTION
    /\ current_body = <<>>
    /\ sections = <<>>
    /\ spc = "scan"
    /\ rescan_of = None
    /\ RtIdle /\ BuildIdle /\ SigIdle /\ TreeIdle

SpecRoundTrip == InitRoundTrip /\ [][NextSections]_vars

----------------------------------------------------------------------------
(* Properties of Section::extract_sections *)

\* line i lies between an opening and a closing fence: an odd number of fence
\* lines precede it and it is no fence line itself
InsideFence(i) ==
    /\ ~Contains(doc_lines[i], FENCE)
    /\ Cardinality({j \in 1..(i - 1) : Contains(doc_lines[j], FENCE)}) % 2 = 1

\* C1: a line holding the heading marker that lies inside a fenced code block
\* neither adds a section nor renames the current one.
C1_NoSectionInsideFence ==
    [][(/\ Scanning
        /\ pos' = pos + 1
        /\ InsideFence(pos + 1)
        /\ Contains(doc_lines[pos + 1], HEADING))
       => (Len(sections') = Len(sections) /\ current_name' = current_name)]_vars

\* C1 witness: the scan is over and went through a heading line inside a closed fence
C1_Witness ==
    /\ spc = "done"
    /\ \E i \in 1..Len(doc_lines) :
          /\ InsideFence(i)
          /\ StartsWith(doc_lines[i], HEADING)
          /\ ~Contains(doc_lines[i], RHAI_ITEM_INDEX_PATTERN)
          /\ \E j \in (i + 1)..Len(doc_lines) : Contains(doc_lines[j], FENCE)

IsDirective(l) == Contains(l, RHAI_ITEM_INDEX_PATTERN)
\* a line of plain text: no heading marker, no fence
IsText(l) == ~Contains(l, HEADING) /\ ~Contains(l, FENCE)
\* a heading line whose text after the marker is n
IsHeadingNamed(l, n) ==
    /\ IsSome(split_once(l, HEADING))
    /\ Unwrap(split_once(l, HEADING))[2] = n
    /\ ~IsDirective(l)
    /\ ~Contains(l, FENCE)
\* the text of a line, without its doc comment marker
TextOf(l) ==
    IF StartsWith(l, DOC) THEN SubSeq(l, Len(DOC) + 1, Len(l))
    ELSE IF StartsWith(l, MARKER) THEN SubSeq(l, Len(MARKER) + 1, Len(l))
    ELSE l
\* the lines among doc_lines[a..b] that are no directive lines: text and blank lines
OwnLines(a, b) == SelectSeq(SubSeq(doc_lines, a, b), LAMBDA l : ~IsDirective(l))
\* the lines of doc_lines[a..b] as they followed their heading, joined
OwnText(a, b) ==
    LET own == OwnLines(a, b)
    IN  join([k \in 1..Len(own) |-> TextOf(own[k])], <<NL>>)
HasText(a, b) == \E k \in a..b : IsText(doc_lines[k])
\* the line l without the carriage returns at its end, n of them at most
RECURSIVE WithoutCR(_, _)
WithoutCR(l, n) ==
    IF n > 0 /\ l # <<>> /\ l[Len(l)] = CR THEN WithoutCR(SubSeq(l, 1, Len(l) - 1), n - 1)
    ELSE l
\* the lines of doc_lines[a..b] as a body holds them: no carriage return ends a
\* line (two at most are taken from a line that another follows, one from the
\* last line), and the last line is left out when it is blank
OwnBody(a, b) ==
    LET own == OwnLines(a, b)
        n == Len(own)
        text == [k \in 1..n |-> WithoutCR(TextOf(own[k]), IF k < n THEN 2 ELSE 1)]
    IN  join(IF n > 0 /\ text[n] = <<>> THEN SubSeq(text, 1, n - 1) ELSE text, <<NL>>)
\* description lines, the Args heading at line i with lines after it, the Return
\* heading at line j with lines after it; each part holds a line of text or a
\* blank line, directive lines may stand anywhere, and there is no fence
RoundTripShape(i, j) ==
    /\ 1 < i /\ i + 1 < j /\ j < Len(doc_lines)
    /\ IsHeadingNamed(doc_lines[i], ARGS)
    /\ IsHeadingNamed(doc_lines[j], RETURN)
    /\ \A k \in (1..Len(doc_lines)) \ {i, j} : IsText(doc_lines[k]) \/ IsDirective(doc_lines[k])
    /\ HasText(1, i - 1) /\ HasText(i + 1, j - 1) /\ HasText(j + 1, Len(doc_lines))

\* C2 as claimed: a block of description text, an Args heading with text and a
\* Return heading with text extracts to exactly the sections Description, Args,
\* Return, in that order, each body holding exactly the lines of its own part.
C2_RoundTripExact ==
    spc = "done" =>
        \A i, j \in 1..Len(doc_lines) :
            RoundTripShape(i, j) =>
                sections = << [name |-> DESCRIPTION, body |-> OwnText(1, i - 1)],
                              [name |-> ARGS, body |-> OwnText(i + 1, j - 1)],
                              [name |-> RETURN, body |-> OwnText(j + 1, Len(doc_lines))] >>

\* C2 amended: such a block extracts to exactly the sections Description, Args,
\* Return, in that order; each body is made of the lines of its own part and of
\* no other, the doc comment marker removed and the directive lines left out,
\* joined by line feeds, without the carriage returns that end a line and
\* without the last line when it is blank.
C2_RoundTrip ==
    (spc = "done" /\ rescan_of = None) =>
        \A i, j \in 1..Len(doc_lines) :
            RoundTripShape(i, j) =>
                sections = << [name |-> DESCRIPTION, body |-> OwnBody(1, i - 1)],
                              [name |-> ARGS, body |-> OwnBody(i + 1, j - 1)],
                              [name |-> RETURN, body |-> OwnBody(j + 1, Len(doc_lines))] >>

\* C2 witness: a block whose description is a line with a doc comment marker and
\* a blank line and whose section Args is two lines, the first ending with
\* carriage returns, was extracted; the body of the description came out without
\* its blank line and the body of Args without the carriage returns
C2_Witness ==
    /\ spc = "done" /\ rescan_of = None
    /\ \E i, j \in 1..Len(doc_lines) : RoundTripShape(i, j)
    /\ SubSeq(doc_lines, 1, 3) = <<TEXT_A, MARKER, HEADING_ARGS>>
    /\ SubSeq(doc_lines, 4, 6) = <<TEXT_CR, TEXT_B, HEADING_RETURN>>
    /\ Len(sections) = 3
    /\ sections[1].body = <<"a">>
    /\ sections[2].body = <<"c", NL, "b">>

----------------------------------------------------------------------------
(* Item::remove_test_code (item.rs:209-225) applied to a comment string *)

MaxRemoveLines == 5

FENCE_RHAI == FENCE \o <<"r", "h", "a", "i">>
HIDDEN == HEADING \o <<"h">>
MAP_OPEN == <<"#", "{">>
LET_MAP == <<"m", " ", "=", " ", "#", "{">>
CODE == <<"x">>
\* a hidden line that ends with a carriage return before its line feed
HIDDEN_CR == HIDDEN \o <<CR>>

\* the lines of the strings remove_test_code is given
RemoveLines == {FENCE, FENCE_RHAI, HIDDEN, HIDDEN_CR, MAP_OPEN, LET_MAP, CODE, <<>>}

InitRemove ==
    /\ \E v \in BSeq(RemoveLines, MaxRemoveLines) : rt_input = join(v, <<NL>>)
    /\ rt_output = None
    /\ ScanIdle /\ BuildIdle /\ SigIdle /\ TreeIdle

\* item.rs:209-225: the call and its return value
RemoveTestCode ==
    /\ rt_output = None
    /\ rt_output' = Some(remove_test_code(rt_input))
    /\ UNCHANGED rt_input
    /\ UNCHANGED scanVars /\ UNCHANGED buildVars /\ UNCHANGED sigVars /\ UNCHANGED treeVars

NextRemove == RemoveTestCode

SpecRemove == InitRemove /\ [][NextRemove]_vars

\* line k of v is inside a fenced block: it is no fence line and an odd number of
\* fence lines precede it
InFencedBlock(v, k) ==
    /\ ~StartsWith(v[k], FENCE)
    /\ Cardinality({m \in 1..(k - 1) : StartsWith(v[m], FENCE)}) % 2 = 1

\* the lines of v at the indexes K, in their order in v
LinesAt(v, K) ==
    [n \in 1..Cardinality(K) |-> v[CHOOSE k \in K : Cardinality({m \in K : m <= k}) = n]]

\* C3: remove_test_code drops exactly the lines that are inside a fenced block and
\* start with the heading marker; all other lines are kept, in order.
C3_RemovesExactlyHiddenLines ==
    IsSome(rt_output) =>
        LET v == lines(rt_input)
            kept == {k \in 1..Len(v) : ~(InFencedBlock(v, k) /\ StartsWith(v[k], HEADING))}
        IN  Unwrap(rt_output) = join(LinesAt(v, kept), <<NL>>)

\* C3 witness: the string held a hidden line and a map literal inside a fence and a
\* heading line outside of it, and the hidden line is gone
C3_Witness ==
    /\ IsSome(rt_output)
    /\ LET v == lines(rt_input) IN
       /\ \E k \in 1..Len(v) : InFencedBlock(v, k) /\ v[k] = HIDDEN
       /\ \E k \in 1..Len(v) : InFencedBlock(v, k) /\ v[k] = MAP_OPEN
       /\ \E k \in 1..Len(v) : ~InFencedBlock(v, k) /\ v[k] = HIDDEN
       /\ Len(lines(Unwrap(rt_output))) = Len(v) - 1

----------------------------------------------------------------------------
(* function.rs: the signature synthesizer *)

\* the characters of the Unicode property White_Space; the ones a string literal
\* cannot hold are written by their code point
WHITE_SPACE ==
    {"\t", "\n", "U+000B", "\f", "\r", " ", "U+0085", "U+00A0", "U+1680",
     "U+2000", "U+2001", "U+2002", "U+2003", "U+2004", "U+2005", "U+2006", "U+2007",
     "U+2008", "U+2009", "U+200A", "U+2028", "U+2029", "U+202F", "U+205F", "U+3000"}

\* char::is_whitespace
IsSpace(c) == c \in WHITE_SPACE

\* str::trim
RECURSIVE trim(_)
trim(s) ==
    IF s = <<>> THEN s
    ELSE IF IsSpace(s[1]) THEN trim(Tail(s))
    ELSE IF IsSpace(s[Len(s)]) THEN trim(SubSeq(s, 1, Len(s) - 1))
    ELSE s

\* str::strip_prefix: Option<&str>
strip_prefix(s, p) == IF StartsWith(s, p) THEN Some(SubSeq(s, Len(p) + 1, Len(s))) ELSE None

\* str::strip_suffix: Option<&str>
strip_suffix(s, p) == IF EndsWith(s, p) THEN Some(SubSeq(s, 1, Len(s) - Len(p))) ELSE None

\* Option::or_else
OrElse(o, alt) == IF IsSome(o) THEN o ELSE alt

\* str::split(p).last(): the occurrences of p are matched from the left without
\* overlap, and the last piece is the text after the last one matched
RECURSIVE LastSegment(_, _)
LastSegment(s, p) ==
    IF Contains(s, p)
    THEN LastSegment(SubSeq(s, MinOf(Occurrences(s, p)) + Len(p), Len(s)), p)
    ELSE s

\* an operator test that knows the comparison symbols only
is_operator_Comparisons(name) ==
    name \in {<<"=", "=">>, <<"!", "=">>, <<">">>, <<">", "=">>, <<"<">>, <<"<", "=">>}

\* function.rs:32-36  is_operator
is_operator(name) ==
    name \in {<<"=", "=">>, <<"!", "=">>, <<">">>, <<">", "=">>, <<"<">>, <<"<", "=">>, <<"i", "n">>}

\* function.rs:82-100  remove_result
remove_result(ty) ==
    LET stripped ==
            IF IsSome(strip_prefix(ty, <<"R", "e", "s", "u", "l", "t", "<">>))
            THEN LET t == Unwrap(strip_prefix(ty, <<"R", "e", "s", "u", "l", "t", "<">>))
                 IN  OrElse(strip_suffix(t, <<",", "B", "o", "x", "<", "E", "v", "a", "l", "A", "l", "t", "R", "e", "s", "u", "l", "t", ">", ">">>),
                     OrElse(strip_suffix(t, <<",", "B", "o", "x", "<", "r", "h", "a", "i", ":", ":", "E", "v", "a", "l", "A", "l", "t", "R", "e", "s", "u", "l", "t", ">", ">">>),
                     OrElse(strip_suffix(t, <<",", " ", "B", "o", "x", "<", "E", "v", "a", "l", "A", "l", "t", "R", "e", "s", "u", "l", "t", ">", ">">>),
                     OrElse(strip_suffix(t, <<",", " ", "B", "o", "x", "<", "r", "h", "a", "i", ":", ":", "E", "v", "a", "l", "A", "l", "t", "R", "e", "s", "u", "l", "t", ">", ">">>),
                            strip_suffix(t, <<">">>)))))
            ELSE IF IsSome(strip_prefix(ty, <<"E", "n", "g", "i", "n", "e", "R", "e", "s", "u", "l", "t", "<">>))
            THEN strip_suffix(Unwrap(strip_prefix(ty, <<"E", "n", "g", "i", "n", "e", "R", "e", "s", "u", "l", "t", "<">>)), <<">">>)
            ELSE IF IsSome(OrElse(strip_prefix(ty, <<"R", "h", "a", "i", "R", "e", "s", "u", "l", "t", "O", "f", "<">>),
                                  strip_prefix(ty, <<"r", "h", "a", "i", ":", ":", "R", "h", "a", "i", "R", "e", "s", "u", "l", "t", "O", "f", "<">>)))
            THEN strip_suffix(Unwrap(OrElse(strip_prefix(ty, <<"R", "h", "a", "i", "R", "e", "s", "u", "l", "t", "O", "f", "<">>),
                                            strip_prefix(ty, <<"r", "h", "a", "i", ":", ":", "R", "h", "a", "i", "R", "e", "s", "u", "l", "t", "O", "f", "<">>))), <<">">>)
            ELSE None
    IN  IF IsSome(stripped) THEN trim(Unwrap(stripped)) ELSE ty

\* a type name resolver without the alias table
def_type_name_Raw(ty) == IF ty = <<"(", ")">> THEN None ELSE Some(ty)

\* function.rs:51-78  def_type_name: Option<String>
\* (type_name of rhai::INT is i64 and of rhai::FLOAT is f64; the names replaced at
\* lines 67-71 all hold "::", which ty cannot hold after line 55)
def_type_name(ty) ==
    LET t1 == trim(IF IsSome(strip_prefix(ty, <<"&", "m", "u", "t">>))
                   THEN Unwrap(strip_prefix(ty, <<"&", "m", "u", "t">>)) ELSE ty)
        t2 == remove_result(t1)
        t3 == LastSegment(t2, <<":", ":">>)
        t4 == replace(replace(replace(replace(replace(replace(replace(replace(t3,
                  <<"I", "t", "e", "r", "a", "t", "o", "r", "<", "I", "t", "e", "m", "=">>, <<"I", "t", "e", "r", "a", "t", "o", "r", "<">>),
                  <<"D", "y", "n", "a", "m", "i", "c">>, <<"?">>),
                  <<"I", "N", "T">>, <<"i", "n", "t">>),
                  <<"i", "6", "4">>, <<"i", "n", "t">>),
                  <<"F", "L", "O", "A", "T">>, <<"f", "l", "o", "a", "t">>),
                  <<"&", "s", "t", "r">>, <<"S", "t", "r", "i", "n", "g">>),
                  <<"I", "m", "m", "u", "t", "a", "b", "l", "e", "S", "t", "r", "i", "n", "g">>, <<"S", "t", "r", "i", "n", "g">>),
                  <<"f", "6", "4">>, <<"f", "l", "o", "a", "t">>)
    IN  IF t4 = <<"(", ")">> THEN None ELSE Some(t4)

\* function.rs:102-114  Arg and Arg::unknown
Arg(name, ty) == [name |-> name, ty |-> ty]
ArgUnknown == Arg(<<"_">>, <<"?">>)

\* function.rs:116-120  impl Display for Arg
ArgToString(arg) == arg.name \o <<":", " ">> \o arg.ty

\* function.rs:162-175  get_arg (index counts from 0)
get_arg(args, index) ==
    IF index + 1 > Len(args) THEN ArgUnknown
    ELSE LET def == args[index + 1] IN
         Arg(IF IsSome(def.name) THEN Unwrap(def.name) ELSE <<"_">>,
             IF IsSome(def.type) /\ IsSome(def_type_name(Unwrap(def.type)))
             THEN Unwrap(def_type_name(Unwrap(def.type))) ELSE <<"?">>)

\* function.rs:157-227  Definition::new
DefinitionNew(name, args, return_type) ==
    LET rt == IF IsSome(return_type) THEN def_type_name(Unwrap(return_type)) ELSE None IN
    IF is_operator(name)
    THEN [kind |-> "Operator", name |-> name, arg1 |-> get_arg(args, 0),
          arg2 |-> get_arg(args, 1), return_type |-> rt]
    ELSE IF IsSome(strip_prefix(name, <<"g", "e", "t", "$">>))
    THEN [kind |-> "Get", target |-> get_arg(args, 0),
          index |-> Arg(Unwrap(strip_prefix(name, <<"g", "e", "t", "$">>)), <<"_">>), return_type |-> rt]
    ELSE IF IsSome(strip_prefix(name, <<"s", "e", "t", "$">>))
    THEN [kind |-> "Set", target |-> get_arg(args, 0),
          index |-> Arg(Unwrap(strip_prefix(name, <<"s", "e", "t", "$">>)), <<"_">>),
          value |-> get_arg(args, 1)]
    ELSE IF IsSome(strip_prefix(name, <<"i", "n", "d", "e", "x", "$", "g", "e", "t", "$">>))
    THEN [kind |-> "IndexGet", target |-> get_arg(args, 0), index |-> get_arg(args, 1),
          return_type |-> rt]
    ELSE IF IsSome(strip_prefix(name, <<"i", "n", "d", "e", "x", "$", "s", "e", "t", "$">>))
    THEN [kind |-> "IndexSet", target |-> get_arg(args, 0), index |-> get_arg(args, 1),
          value |-> get_arg(args, 2)]
    ELSE [kind |-> "Function", name |-> name,
          args |-> [k \in 1..Len(args) |-> get_arg(args, k - 1)], return_type |-> rt]

\* function.rs:243-246, 255-258  return_type.map_or(none, |rt| format!(" -> {rt}"))
ReturnSuffix(return_type, none) ==
    IF IsSome(return_type) THEN <<" ", "-", ">", " ">> \o Unwrap(return_type) ELSE none

\* function.rs:229-295  Definition::display
display(def) ==
    CASE def.kind = "Function" ->
            <<"f", "n", " ">> \o def.name \o <<"(">>
            \o join([k \in 1..Len(def.args) |-> ArgToString(def.args[k])], <<",", " ">>)
            \o <<")">> \o ReturnSuffix(def.return_type, <<>>)
      [] def.kind = "Operator" ->
            <<"o", "p", " ">> \o def.arg1.ty \o <<" ">> \o def.name \o <<" ">> \o def.arg2.ty
            \o ReturnSuffix(def.return_type, <<")">>)
      [] def.kind = "Get" ->
            <<"g", "e", "t", " ">> \o def.target.ty \o <<".">> \o def.index.name
            \o ReturnSuffix(def.return_type, <<")">>)
      [] def.kind = "Set" ->
            <<"s", "e", "t", " ">> \o def.target.ty \o <<".">> \o def.index.name \o <<" ", "=", " ">> \o def.value.ty
      [] def.kind = "IndexGet" ->
            <<"i", "n", "d", "e", "x", " ", "g", "e", "t", " ">> \o def.target.ty \o <<"[">> \o ArgToString(def.index) \o <<"]">>
            \o ReturnSuffix(def.return_type, <<")">>)
      [] def.kind = "IndexSet" ->
            <<"i", "n", "d", "e", "x", " ", "s", "e", "t", " ">> \o def.target.ty \o <<"[">> \o ArgToString(def.index) \o <<"]", " ", "=", " ">>
            \o def.value.ty

\* function.rs:298-307  Definition::type_to_str
type_to_str(def) ==
    CASE def.kind = "Function" -> <<"f", "n">>
      [] def.kind = "Operator" -> <<"o", "p">>
      [] def.kind = "Get" -> <<"g", "e", "t">>
      [] def.kind = "Set" -> <<"s", "e", "t">>
      [] def.kind = "IndexGet" -> <<"i", "n", "d", "e", "x", " ", "g", "e", "t">>
      [] def.kind = "IndexSet" -> <<"i", "n", "d", "e", "x", " ", "s", "e", "t">>

\* function.rs:310-318  Definition::name
DefinitionName(def) ==
    IF def.kind \in {"Function", "Operator"} THEN def.name ELSE def.index.name

\* function.rs:23-29  FunctionMetadata::generate_function_definition
generate_function_definition(m) ==
    DefinitionNew(m.name, IF IsSome(m.params) THEN Unwrap(m.params) ELSE <<>>, m.return_type)

----------------------------------------------------------------------------
(* item.rs: construction of the documentation items *)

Ok(v) == [ok |-> TRUE, v |-> v]
Err(e) == [ok |-> FALSE, e |-> e]

IsDigit(c) == c \in {"0", "1", "2", "3", "4", "5", "6", "7", "8", "9"}
DigitValue(c) ==
    CASE c = "0" -> 0 [] c = "1" -> 1 [] c = "2" -> 2 [] c = "3" -> 3 [] c = "4" -> 4
      [] c = "5" -> 5 [] c = "6" -> 6 [] c = "7" -> 7 [] c = "8" -> 8 [] c = "9" -> 9

RECURSIVE DecimalValue(_)
DecimalValue(s) ==
    IF s = <<>> THEN 0 ELSE 10 * DecimalValue(SubSeq(s, 1, Len(s) - 1)) + DigitValue(s[Len(s)])

\* the decimal digits of usize::MAX = 2^64 - 1
USIZE_MAX_DIGITS ==
    <<"1", "8", "4", "4", "6", "7", "4", "4", "0", "7", "3", "7", "0", "9", "5", "5",
      "1", "6", "1", "5">>

\* the digits without the leading zeros
RECURSIVE StripZeros(_)
StripZeros(digits) ==
    IF digits # <<>> /\ digits[1] = "0" THEN StripZeros(Tail(digits)) ELSE digits

\* a < b for two texts of digits of one length
RECURSIVE DigitsLess(_, _)
DigitsLess(a, b) ==
    IF a = <<>> THEN FALSE
    ELSE IF a[1] # b[1] THEN DigitValue(a[1]) < DigitValue(b[1])
    ELSE DigitsLess(Tail(a), Tail(b))

\* str::parse::<usize>: the value of the digits is above usize::MAX (PosOverflow)
ExceedsUsize(digits) ==
    LET d == StripZeros(digits)
    IN  \/ Len(d) > Len(USIZE_MAX_DIGITS)
        \/ Len(d) = Len(USIZE_MAX_DIGITS) /\ DigitsLess(USIZE_MAX_DIGITS, d)

\* a parse that takes the positive integers only
parse_usize_Positive(s) ==
    LET digits == IF s # <<>> /\ s[1] = "+" THEN Tail(s) ELSE s IN
    IF digits # <<>> /\ (\A k \in 1..Len(digits) : IsDigit(digits[k]))
       /\ ~ExceedsUsize(digits) /\ DecimalValue(digits) > 0
    THEN Ok(DecimalValue(digits))
    ELSE Err("ParseIntError")

\* str::parse::<usize>: an optional plus sign, then one or more decimal digits
\* whose value is at most usize::MAX
parse_usize(s) ==
    LET digits == IF s # <<>> /\ s[1] = "+" THEN Tail(s) ELSE s IN
    IF digits # <<>> /\ (\A k \in 1..Len(digits) : IsDigit(digits[k]))
       /\ ~ExceedsUsize(digits)
    THEN Ok(DecimalValue(digits))
    ELSE Err("ParseIntError")

\* find_index that reports a missing directive as an error
RECURSIVE find_index_MissingIsError(_)
find_index_MissingIsError(doc_comments) ==
    IF doc_comments = <<>> THEN Err("MissingOrderMetadata")
    ELSE LET split == rsplit_once(doc_comments[1], RHAI_ITEM_INDEX_PATTERN) IN
         IF IsSome(split)
         THEN LET parsed == parse_usize(Unwrap(split)[2]) IN
              IF parsed.ok THEN Ok(Some(parsed.v)) ELSE Err("ParseOrderMetadata")
         ELSE find_index_MissingIsError(Tail(doc_comments))

\* Item::find_index (item.rs:161-172): Result<Option<usize>, Error>
RECURSIVE find_index(_)
find_index(doc_comments) ==
    IF doc_comments = <<>> THEN Ok(None)
    ELSE LET split == rsplit_once(doc_comments[1], RHAI_ITEM_INDEX_PATTERN) IN
         IF IsSome(split)
         THEN LET parsed == parse_usize(Unwrap(split)[2]) IN
              IF parsed.ok THEN Ok(Some(parsed.v)) ELSE Err("ParseOrderMetadata")
         ELSE find_index(Tail(doc_comments))

\* Option::unwrap_or(&vec![]) on doc_comments
CommentsOr(doc_comments) == IF IsSome(doc_comments) THEN Unwrap(doc_comments) ELSE <<>>

\* a root that is the first overload, documented or not
FindRoot_First(polymorphisms) ==
    IF polymorphisms = <<>> THEN None ELSE Some(polymorphisms[1])

\* a root that is the last documented overload
FindRoot_LastDocumented(polymorphisms) ==
    LET documented == {k \in 1..Len(polymorphisms) : IsSome(polymorphisms[k].doc_comments)}
    IN  IF documented = {} THEN None ELSE Some(polymorphisms[MaxOf(documented)])

\* item.rs:86-88  metadata.iter().find(|m| m.doc_comments.is_some())
FindRoot(polymorphisms) ==
    LET documented == {k \in 1..Len(polymorphisms) : IsSome(polymorphisms[k].doc_comments)}
    IN  IF documented = {} THEN None ELSE Some(polymorphisms[MinOf(documented)])

\* an index that defaults to 0 when the comments hold no directive
ItemIndex_DefaultZero(doc_comments, opts) ==
    IF opts.items_order = "ByIndex"
    THEN LET r == find_index(CommentsOr(doc_comments)) IN
         IF r.ok /\ IsNone(r.v) THEN Ok(Some(0)) ELSE r
    ELSE Ok(Some(0))

\* item.rs:93-97 and 118-122: the index of an item under the ordering option
ItemIndex(doc_comments, opts) ==
    IF opts.items_order = "ByIndex" THEN find_index(CommentsOr(doc_comments)) ELSE Ok(Some(0))

\* a function item that keeps the documented overload only
ItemFunction_RootOnly(root, polymorphisms, name, index) ==
    [kind |-> "Function", root_metadata |-> root, metadata |-> <<root>>,
     name |-> name, index |-> index]

\* item.rs:101-106  Item::Function
ItemFunction(root, polymorphisms, name, index) ==
    [kind |-> "Function", root_metadata |-> root, metadata |-> polymorphisms,
     name |-> name, index |-> index]

\* Item::new_function (item.rs:80-112): Result<Option<Item>, Error>
new_function(polymorphisms, name, opts) ==
    LET root == FindRoot(polymorphisms) IN
    IF IsSome(root) /\ ~StartsWith(name, <<"a", "n", "o", "n", "$">>)
    THEN LET index == ItemIndex(Unwrap(root).doc_comments, opts) IN
         IF ~index.ok THEN index
         ELSE IF IsNone(index.v) THEN Ok(None)
         ELSE Ok(Some(ItemFunction(Unwrap(root), polymorphisms, name, Unwrap(index.v))))
    ELSE Ok(None)

\* item.rs:125  Item::CustomType
ItemCustomType(ty, index) == [kind |-> "CustomType", metadata |-> ty, index |-> index]

\* Item::new_custom_type (item.rs:114-127): Result<Option<Item>, Error>
new_custom_type(ty, opts) ==
    LET index == ItemIndex(ty.doc_comments, opts) IN
    IF ~index.ok THEN index
    ELSE IF IsNone(index.v) THEN Ok(None)
    ELSE Ok(Some(ItemCustomType(ty, Unwrap(index.v))))

\* Item::index (item.rs:131-135)
ItemGetIndex(item) == item.index

\* Item::name (item.rs:139-144)
ItemGetName(item) ==
    IF item.kind = "CustomType" THEN item.metadata.display_name ELSE item.name

\* item.rs:43-50: the "signatures" field of a serialized function item
ItemSignatures(item) ==
    join([k \in 1..Len(item.metadata) |->
             display(generate_function_definition(item.metadata[k]))], <<NL>>)

\* item.rs:150-153  type_to_str().replace(['/', ' '], "")
HeadingPrefix(ty) == SelectSeq(ty, LAMBDA c : c \notin {"/", " "})

\* item.rs:158  format!("{prefix}-{}", self.name())
HeadingId(prefix, name) == prefix \o <<"-">> \o name

\* Item::heading_id (item.rs:148-159)
heading_id(item) ==
    HeadingId(IF item.kind = "Function"
              THEN HeadingPrefix(type_to_str(generate_function_definition(item.root_metadata)))
              ELSE <<"t", "y", "p", "e">>,
              ItemGetName(item))

\* item.rs:51-59 and 66-71: the "sections" field, extract_sections of the doc
\* comments joined by line feeds
ItemSections(doc_comments) == extract_sections(join(CommentsOr(doc_comments), <<NL>>))

\* item.rs:36-61: the fields of a function item, root_definition being the
\* definition of its root_metadata
SerializeFunction(item, root_definition, found) ==
    [type |-> type_to_str(root_definition),
     heading_id |-> HeadingId(HeadingPrefix(type_to_str(root_definition)), item.name),
     name |-> item.name,
     signatures |-> ItemSignatures(item),
     sections |-> found]

\* item.rs:63-73: the fields of a custom type item
SerializeCustomType(item, found) ==
    [name |-> item.metadata.display_name,
     heading_id |-> HeadingId(<<"t", "y", "p", "e">>, item.metadata.display_name),
     sections |-> found]

\* the item with its sections
SerializeWith(item, found) ==
    IF item.kind = "Function"
    THEN SerializeFunction(item, generate_function_definition(item.root_metadata), found)
    ELSE SerializeCustomType(item, found)

\* impl Serialize for Item (item.rs:24-78): the fields a template is given
serialize(item) ==
    SerializeWith(item, ItemSections(IF item.kind = "Function"
                                     THEN item.root_metadata.doc_comments
                                     ELSE item.metadata.doc_comments))

----------------------------------------------------------------------------
(* export.rs: ItemsOrder::order_items *)

\* the printable ASCII characters in code order: str::cmp compares bytes
ASCII ==
    <<" ", "!">> \o <<"\"">> \o <<"#", "$", "%", "&", "'", "(", ")", "*", "+", ",", "-", ".", "/", "0", "1", "2", "3", "4", "5", "6", "7", "8", "9", ":", ";", "<", "=", ">", "?", "@", "A", "B", "C", "D", "E", "F", "G", "H", "I", "J", "K", "L", "M", "N", "O", "P", "Q", "R", "S", "T", "U", "V", "W", "X", "Y", "Z", "[">>
    \o <<"\\">> \o <<"]", "^", "_">> \o <<BT>> \o <<"a", "b", "c", "d", "e", "f", "g", "h", "i", "j", "k", "l", "m", "n", "o", "p", "q", "r", "s", "t", "u", "v", "w", "x", "y", "z", "{", "|", "}", "~">>
Ord(c) == CHOOSE k \in 1..Len(ASCII) : ASCII[k] = c

\* str::cmp(a, b) = Less
RECURSIVE StrLess(_, _)
StrLess(a, b) ==
    IF b = <<>> THEN FALSE
    ELSE IF a = <<>> THEN TRUE
    ELSE IF a[1] = b[1] THEN StrLess(Tail(a), Tail(b))
    ELSE Ord(a[1]) < Ord(b[1])

\* a sort that puts equal elements in the reverse of the order they were in
StableSort_TiesReversed(v, less(_, _)) ==
    LET Rank(i) == Cardinality({j \in 1..Len(v) : less(v[j], v[i])})
                   + Cardinality({j \in i..Len(v) : ~less(v[j], v[i]) /\ ~less(v[i], v[j])})
    IN  [n \in 1..Len(v) |-> v[CHOOSE i \in 1..Len(v) : Rank(i) = n]]

\* slice::sort_by / sort_by_key: a stable sort under the strict order less
StableSort(v, less(_, _)) ==
    LET Rank(i) == Cardinality({j \in 1..Len(v) : less(v[j], v[i])})
                   + Cardinality({j \in 1..i : ~less(v[j], v[i]) /\ ~less(v[i], v[j])})
    IN  [n \in 1..Len(v) |-> v[CHOOSE i \in 1..Len(v) : Rank(i) = n]]

\* a comparison by name that finds every two items equal
ByNameLess_Never(i1, i2) == FALSE

ByNameLess(i1, i2) == StrLess(ItemGetName(i1), ItemGetName(i2))
ByIndexLess(i1, i2) == ItemGetIndex(i1) < ItemGetIndex(i2)

\* an ordering whose sort is not stable
order_items_TiesReversed(opts, v) ==
    IF opts.items_order = "Alphabetical"
    THEN StableSort_TiesReversed(v, LAMBDA i1, i2 : StrLess(ItemGetName(i1), ItemGetName(i2)))
    ELSE StableSort_TiesReversed(v, LAMBDA i1, i2 : ItemGetIndex(i1) < ItemGetIndex(i2))

\* an ordering that keeps the items as they were found
order_items_Unsorted(opts, v) == v

\* ItemsOrder::order_items (export.rs:122-136)
order_items(opts, v) ==
    IF opts.items_order = "Alphabetical"
    THEN StableSort(v, ByNameLess)
    ELSE StableSort(v, ByIndexLess)

----------------------------------------------------------------------------
(* module.rs: group_functions and generate_module_documentation_inner *)

\* an insertion that starts the group anew at every record
GroupInsert_Overwrite(groups, name, m) ==
    [k \in DOMAIN groups \cup {name} |-> IF k = name THEN <<m>> ELSE groups[k]]

\* module.rs:155-160: the record is pushed to the group of its name, or a group
\* holding it is inserted under its name
GroupInsert(groups, name, m) ==
    IF name \in DOMAIN groups
    THEN [groups EXCEPT ![name] = Append(@, m)]
    ELSE [k \in DOMAIN groups \cup {name} |-> IF k = name THEN <<m>> ELSE groups[k]]

\* module.rs:152-162: the loop of group_functions, groups being the HashMap so far
RECURSIVE GroupLoop(_, _)
GroupLoop(functions, groups) ==
    IF functions = <<>> THEN groups
    ELSE GroupLoop(Tail(functions),
                   GroupInsert(groups,
                               DefinitionName(generate_function_definition(functions[1])),
                               functions[1]))

\* group_functions (module.rs:145-165)
group_functions(functions) == GroupLoop(functions, <<>>)

\* module.rs:125  items.into_iter().flatten()
RECURSIVE Flatten(_)
Flatten(v) ==
    IF v = <<>> THEN <<>>
    ELSE (IF IsSome(v[1]) THEN <<Unwrap(v[1])>> ELSE <<>>) \o Flatten(Tail(v))

----------------------------------------------------------------------------
(* generate_module_documentation_inner (module.rs:84-143) for one module whose   *)
(* metadata has no sub-modules: one action per loop iteration                    *)

\* module.rs:112  items.push(Item::new_custom_type(ty.clone(), options)?)
PushCustomType ==
    /\ pc = "types" /\ ti < Len(metadata.custom_types)
    /\ LET r == new_custom_type(metadata.custom_types[ti + 1], options) IN
       /\ r.ok
       /\ items' = Append(items, r.v)
    /\ ti' = ti + 1
    /\ UNCHANGED <<options, metadata, pc, function_groups, pending, md_items, result, glossary_groups, glossary>>
    /\ UNCHANGED scanVars /\ UNCHANGED rtVars /\ UNCHANGED sigVars /\ UNCHANGED treeVars

\* module.rs:112  the ? operator returns the error of Item::new_custom_type
FailCustomType ==
    /\ pc = "types" /\ ti < Len(metadata.custom_types)
    /\ LET r == new_custom_type(metadata.custom_types[ti + 1], options) IN
       /\ ~r.ok
       /\ result' = Some(Err(r.e))
    /\ pc' = "done"
    /\ UNCHANGED <<options, metadata, ti, items, function_groups, pending, md_items, glossary_groups, glossary>>
    /\ UNCHANGED scanVars /\ UNCHANGED rtVars /\ UNCHANGED sigVars /\ UNCHANGED treeVars

\* module.rs:116-117  group_functions(functions), the HashMap the second loop iterates
GroupFunctions ==
    /\ pc = "types" /\ ti = Len(metadata.custom_types)
    /\ function_groups' = group_functions(metadata.functions)
    /\ pending' = DOMAIN function_groups'
    /\ pc' = "functions"
    /\ UNCHANGED <<options, metadata, ti, items, md_items, result, glossary_groups, glossary>>
    /\ UNCHANGED scanVars /\ UNCHANGED rtVars /\ UNCHANGED sigVars /\ UNCHANGED treeVars

\* module.rs:117-120  one iteration of the HashMap, in any order: an Ok item is pushed
PushFunction ==
    /\ pc = "functions"
    /\ \E name \in pending :
          LET r == new_function(function_groups[name], name, options) IN
          /\ r.ok
          /\ items' = Append(items, r.v)
          /\ pending' = pending \ {name}
    /\ UNCHANGED <<options, metadata, pc, ti, function_groups, md_items, result, glossary_groups, glossary>>
    /\ UNCHANGED scanVars /\ UNCHANGED rtVars /\ UNCHANGED sigVars /\ UNCHANGED treeVars

\* module.rs:118  if let Ok(doc_item): an Err of Item::new_function is dropped
SkipFailedFunction ==
    /\ pc = "functions"
    /\ \E name \in pending :
          LET r == new_function(function_groups[name], name, options) IN
          /\ ~r.ok
          /\ pending' = pending \ {name}
    /\ UNCHANGED <<options, metadata, pc, ti, items, function_groups, md_items, result, glossary_groups, glossary>>
    /\ UNCHANGED scanVars /\ UNCHANGED rtVars /\ UNCHANGED sigVars /\ UNCHANGED treeVars

\* module.rs:125-127  md.items = options.items_order.order_items(flattened items)
OrderItems ==
    /\ pc = "functions" /\ pending = {}
    /\ md_items' = order_items(options, Flatten(items))
    /\ pc' = "modules"
    /\ UNCHANGED <<options, metadata, ti, items, function_groups, pending, result, glossary_groups, glossary>>
    /\ UNCHANGED scanVars /\ UNCHANGED rtVars /\ UNCHANGED sigVars /\ UNCHANGED treeVars

\* module.rs:130-142  metadata.modules is None: Ok(md)
ReturnDocumentation ==
    /\ pc = "modules"
    /\ result' = Some(Ok([items |-> md_items]))
    /\ pc' = "done"
    /\ UNCHANGED <<options, metadata, ti, items, function_groups, pending, md_items, glossary_groups, glossary>>
    /\ UNCHANGED scanVars /\ UNCHANGED rtVars /\ UNCHANGED sigVars /\ UNCHANGED treeVars

----------------------------------------------------------------------------
(* generate_module_glossary_inner (module.rs:202-330) for one module whose        *)
(* metadata has no sub-modules: the loop of lines 312-327 has nothing to visit;   *)
(* the calls for sub-modules are the frames of gstack further down                *)

\* the orders in which the keys of a map can be iterated
Iterations(K) == {t \in [1..Cardinality(K) -> K] : \A i, j \in 1..Cardinality(K) : t[i] = t[j] => i = j}

\* str::trim_start_matches: every leading repetition of p is removed
RECURSIVE trim_start_matches(_, _)
trim_start_matches(s, p) ==
    IF p # <<>> /\ StartsWith(s, p)
    THEN trim_start_matches(SubSeq(s, Len(p) + 1, Len(s)), p)
    ELSE s

\* module.rs:208-210  make_highlight
make_highlight(color, item_type, text) ==
    <<"-", " ", "<", "H", "i", "g", "h", "l", "i", "g", "h", "t", " ", "c", "o", "l", "o", "r", "=", "\"">> \o color \o <<"\"", ">">> \o item_type
    \o <<"<", "/", "H", "i", "g", "h", "l", "i", "g", "h", "t", ">", " ", "<", "c", "o", "d", "e", ">", "{", "\"">> \o text \o <<"\"", "}", "<", "/", "c", "o", "d", "e", ">">> \o <<NL>>

COLOR_OP == <<"#", "1", "6", "c", "6", "f", "3">>
COLOR_ACCESS == <<"#", "2", "5", "c", "2", "a", "0">>
COLOR_FN == <<"#", "C", "6", "c", "a", "c", "b">>

\* module.rs:250-284: the prefixes the glossary looks for, in the order of the tests
GlossaryPrefixes == <<<<"o", "p", " ">>, <<"g", "e", "t", " ">>, <<"s", "e", "t", " ">>, <<"i", "n", "d", "e", "x", " ", "g", "e", "t", " ">>, <<"i", "n", "d", "e", "x", " ", "s", "e", "t", " ">>>>
PREFIX_FN == <<"f", "n", " ">>

\* module.rs:250-284: the prefix that is trimmed from the serialized definition
HighlightPrefix(serialized) ==
    LET matching == {k \in 1..Len(GlossaryPrefixes) : StartsWith(serialized, GlossaryPrefixes[k])}
    IN  IF matching = {} THEN PREFIX_FN ELSE GlossaryPrefixes[MinOf(matching)]

\* module.rs:250-284: the colour of the line
HighlightColor(prefix) ==
    IF prefix = GlossaryPrefixes[1] THEN COLOR_OP
    ELSE IF prefix = PREFIX_FN THEN COLOR_FN
    ELSE COLOR_ACCESS

\* module.rs:250-284: the glossary line of a definition serialized with a prefix
HighlightLine(root_definition, serialized, prefix) ==
    make_highlight(HighlightColor(prefix), type_to_str(root_definition),
                   trim_start_matches(serialized, prefix))

\* module.rs:246-284: the glossary line of a definition
HighlightDefinition(root_definition, serialized) ==
    HighlightLine(root_definition, serialized, HighlightPrefix(serialized))

\* module.rs:246-248: the glossary line of a definition, serialized by display
HighlightSerialized(root_definition) ==
    HighlightDefinition(root_definition, display(root_definition))

\* module.rs:245-248: the glossary line of one overload
HighlightOverload(m) == HighlightSerialized(generate_function_definition(m))

\* module.rs:242-290: the glossary lines of one item
HighlightItem(item) ==
    IF item.kind = "Function"
    THEN join([k \in 1..Len(item.metadata) |-> HighlightOverload(item.metadata[k])], <<>>)
    ELSE make_highlight(COLOR_FN, <<"t", "y", "p", "e">>, item.metadata.display_name)

\* module.rs:238-294  let signatures
GlossarySignatures(v) == join([k \in 1..Len(v) |-> HighlightItem(v[k])], <<>>)

\* module.rs:81 and 199  the name of the outer module
GLOBAL == <<"g", "l", "o", "b", "a", "l">>

\* module.rs:302  include_str!("components/highlight.js"): the text of the component
HIGHLIGHT_JS == <<"h", "i", "g", "h", "l", "i", "g", "h", "t", ".", "j", "s">>

\* module.rs:297-310  Glossary { content }
GlossaryContent(name, signatures) ==
    IF name = GLOBAL
    THEN HIGHLIGHT_JS \o <<" ", NL, NL>> \o <<"#", "#", "#", " ">> \o name \o <<NL>> \o signatures
    ELSE <<"#", "#", "#", " ">> \o name \o <<NL>> \o signatures

\* Iterator::collect::<Result<Vec<_>, Error>>(): the first error, or every value
CollectResults(v) ==
    LET bad == {k \in 1..Len(v) : ~v[k].ok}
    IN  IF bad # {} THEN Err(v[MinOf(bad)].e) ELSE Ok([k \in 1..Len(v) |-> v[k].v])

\* module.rs:110-114 and 212-217: the items of the custom types, or the first error
ModuleTypes(opts, md) ==
    CollectResults([k \in 1..Len(md.custom_types) |->
                       new_custom_type(md.custom_types[k], opts)])

\* module.rs:226-229: the items of the function groups iterated in the order keys,
\* or the first error
GlossaryFunctions(opts, groups, keys) ==
    CollectResults([k \in 1..Len(keys) |-> new_function(groups[keys[k]], keys[k], opts)])

\* module.rs:217-310: the glossary of the collected custom types and functions
GlossaryOf(opts, name, types, fns) ==
    IF ~types.ok THEN types
    ELSE IF ~fns.ok THEN fns
    ELSE Ok([content |->
                GlossaryContent(name,
                    GlossarySignatures(order_items(opts, Flatten(types.v \o fns.v))))])

\* the builder has returned and the glossary of the same metadata, under the same
\* options, has not
GlossaryRunning == pc = "done" /\ IsSome(result) /\ glossary = None

\* module.rs:212-217  the custom types of the glossary
GlossaryTypes == ModuleTypes(options, metadata)

\* module.rs:216  the ? operator returns the error of Item::new_custom_type
GlossaryFailType ==
    /\ GlossaryRunning /\ glossary_groups = None
    /\ ~GlossaryTypes.ok
    /\ glossary' = Some(GlossaryTypes)
    /\ UNCHANGED <<options, metadata, pc, ti, items, function_groups, pending, md_items,
                   result, glossary_groups>>
    /\ UNCHANGED scanVars /\ UNCHANGED rtVars /\ UNCHANGED sigVars /\ UNCHANGED treeVars

\* module.rs:222-225  let groups = group_functions(functions)
GlossaryGroups ==
    /\ GlossaryRunning /\ glossary_groups = None
    /\ GlossaryTypes.ok
    /\ glossary_groups' = Some(group_functions(metadata.functions))
    /\ UNCHANGED <<options, metadata, pc, ti, items, function_groups, pending, md_items,
                   result, glossary>>
    /\ UNCHANGED scanVars /\ UNCHANGED rtVars /\ UNCHANGED sigVars /\ UNCHANGED treeVars

\* module.rs:225-310 and 329: the groups are iterated in any order; the first
\* error, or the glossary of the ordered items, is returned (metadata.modules is
\* None here, so the loop of lines 312-327 is not entered)
GenerateGlossary ==
    /\ GlossaryRunning /\ IsSome(glossary_groups)
    /\ \E keys \in Iterations(DOMAIN Unwrap(glossary_groups)) :
          glossary' = Some(GlossaryOf(options, GLOBAL, GlossaryTypes,
                               GlossaryFunctions(options, Unwrap(glossary_groups), keys)))
    /\ UNCHANGED <<options, metadata, pc, ti, items, function_groups, pending, md_items,
                   result, glossary_groups>>
    /\ UNCHANGED scanVars /\ UNCHANGED rtVars /\ UNCHANGED sigVars /\ UNCHANGED treeVars

----------------------------------------------------------------------------
(* Inputs of the builder *)

MaxTypes == 2
MaxFns == 2

DOC_1 == DOC \o <<"d", "o", "c", " ", "1">>
INDEX_2 == RHAI_ITEM_INDEX_PATTERN \o <<"2">>
INDEX_3 == RHAI_ITEM_INDEX_PATTERN \o <<"3">>
INDEX_X == RHAI_ITEM_INDEX_PATTERN \o <<"x">>
INDEX_0 == RHAI_ITEM_INDEX_PATTERN \o <<"0">>
DOC_INDEX_1 == DOC \o INDEX_1

Param(name, type) == [name |-> Some(name), type |-> Some(type)]
\* function.rs:7-18  FunctionMetadata; num_params is the length of params, as the
\* engine emits it for the functions of the pools below
FunctionMetadata(name, params, return_type, doc_comments) ==
    [name |-> name, num_params |-> IF IsSome(params) THEN Len(Unwrap(params)) ELSE 0,
     params |-> params, return_type |-> return_type, doc_comments |-> doc_comments]
CustomTypeMetadata(display_name, doc_comments) ==
    [type_name |-> display_name, display_name |-> display_name,
     doc_comments |-> doc_comments]

\* fn f(a: INT) -> INT, documented, index 1
FN_F_DOC == FunctionMetadata(<<"f">>, Some(<<Param(<<"a">>, <<"I", "N", "T">>)>>), Some(<<"I", "N", "T">>),
                             Some(<<DOC_1, DOC_INDEX_1>>))
\* fn f(), an overload without doc comments
FN_F_PLAIN == FunctionMetadata(<<"f">>, Some(<<>>), None, None)
\* fn g(), documented, index 2
FN_G_DOC == FunctionMetadata(<<"g">>, None, None, Some(<<TEXT_A, INDEX_2>>))
\* fn g(b: Dynamic), documented without a directive
FN_G_NOINDEX == FunctionMetadata(<<"g">>, Some(<<Param(<<"b">>, <<"D", "y", "n", "a", "m", "i", "c">>)>>), None,
                                 Some(<<TEXT_A>>))
\* fn h(), documented, the directive is no integer
FN_H_BAD == FunctionMetadata(<<"h">>, Some(<<>>), None, Some(<<INDEX_X>>))
\* an anonymous function, documented, index 1
FN_ANON == FunctionMetadata(<<"a", "n", "o", "n", "$", "1">>, Some(<<>>), None, Some(<<INDEX_1>>))

\* fn k(), documented, index 0
FN_K_ZERO == FunctionMetadata(<<"k">>, Some(<<>>), None, Some(<<TEXT_B, INDEX_0>>))

FunctionPool == {FN_F_DOC, FN_F_PLAIN, FN_G_DOC, FN_G_NOINDEX, FN_H_BAD, FN_ANON, FN_K_ZERO}

\* type T, documented, index 3
CT_T == CustomTypeMetadata(<<"T">>, Some(<<TEXT_A, INDEX_3>>))
\* type U, without doc comments
CT_U_PLAIN == CustomTypeMetadata(<<"U">>, None)
\* type V, documented, the directive is no integer
CT_V_BAD == CustomTypeMetadata(<<"V">>, Some(<<INDEX_X>>))
\* type W, documented without a directive
CT_W_NOINDEX == CustomTypeMetadata(<<"W">>, Some(<<TEXT_B>>))

\* type f, named as the function f, documented, index 1 as the function f
CT_F == CustomTypeMetadata(<<"f">>, Some(<<TEXT_B, INDEX_1>>))

\* a second type displayed as T, documented, index 1
CT_T_OTHER == [type_name |-> <<"m", ":", ":", "T">>, display_name |-> <<"T">>,
               doc_comments |-> Some(<<TEXT_B, INDEX_1>>)]

TypePool == {CT_T, CT_T_OTHER, CT_U_PLAIN, CT_V_BAD, CT_W_NOINDEX, CT_F}

\* module.rs:100-108: the builder on entry, for the metadata of one module
Init ==
    /\ options \in [items_order : {"Alphabetical", "ByIndex"}]
    /\ metadata \in [custom_types : BSeq(TypePool, MaxTypes),
                     functions : BSeq(FunctionPool, MaxFns)]
    /\ pc = "types" /\ ti = 0 /\ items = <<>>
    /\ function_groups = <<>> /\ pending = {} /\ md_items = <<>> /\ result = None
    /\ glossary_groups = None /\ glossary = None
    /\ ScanIdle /\ RtIdle /\ SigIdle /\ TreeIdle

Next ==
    \/ PushCustomType \/ FailCustomType \/ GroupFunctions
    \/ PushFunction \/ SkipFailedFunction \/ OrderItems \/ ReturnDocumentation
    \/ GlossaryFailType \/ GlossaryGroups \/ GenerateGlossary

Spec == Init /\ [][Next]_vars

----------------------------------------------------------------------------
(* Properties of the builder *)

ByIndex == options.items_order = "ByIndex"
Returned == pc = "done" /\ IsSome(result)
Succeeded == Returned /\ Unwrap(result).ok
Failed == Returned /\ ~Unwrap(result).ok
\* the items of the returned documentation
Out == Unwrap(result).v.items

\* the group key of a function record and the groups of the module, from the metadata
KeyOf(m) == DefinitionName(generate_function_definition(m))
GroupNames == {KeyOf(metadata.functions[k]) : k \in 1..Len(metadata.functions)}
Overloads(n) == SelectSeq(metadata.functions, LAMBDA m : KeyOf(m) = n)
Documented(n) == \E k \in 1..Len(Overloads(n)) : IsSome(Overloads(n)[k].doc_comments)
\* the comments of the first documented overload of the group n
RootComments(n) ==
    LET ov == Overloads(n)
    IN  Unwrap(ov[MinOf({k \in 1..Len(ov) : IsSome(ov[k].doc_comments)})].doc_comments)
Anonymous(n) == StartsWith(n, <<"a", "n", "o", "n", "$">>)

\* the directive of a comment block: the first line that holds the pattern
HasDirective(dc) == \E k \in 1..Len(dc) : Contains(dc[k], RHAI_ITEM_INDEX_PATTERN)
DirectiveText(dc) ==
    LET l == dc[MinOf({k \in 1..Len(dc) : Contains(dc[k], RHAI_ITEM_INDEX_PATTERN)})]
    IN  SubSeq(l, MaxOf(Occurrences(l, RHAI_ITEM_INDEX_PATTERN))
                  + Len(RHAI_ITEM_INDEX_PATTERN), Len(l))
IsInteger(s) == s # <<>> /\ \A k \in 1..Len(s) : IsDigit(s[k])
DirectiveParses(dc) == HasDirective(dc) /\ IsInteger(DirectiveText(dc))
DirectiveValue(dc) == DecimalValue(DirectiveText(dc))
\* the comments an item was built from
ItemComments(item) ==
    IF item.kind = "CustomType" THEN CommentsOr(item.metadata.doc_comments)
    ELSE CommentsOr(item.root_metadata.doc_comments)

Count(v, x) == Cardinality({k \in 1..Len(v) : v[k] = x})
IsPermutation(a, b) ==
    /\ Len(a) = Len(b)
    /\ \A k \in 1..Len(a) : Count(a, a[k]) = Count(b, a[k])

\* C4: in by-index mode the returned items are a permutation of the retained items,
\* in non-decreasing order of the value of their directive, whatever the order in
\* which they were found.
C4_ByIndexSorted ==
    (Succeeded /\ ByIndex) =>
        /\ IsPermutation(Out, Flatten(items))
        /\ \A k \in 1..(Len(Out) - 1) :
              DirectiveValue(ItemComments(Out[k])) <= DirectiveValue(ItemComments(Out[k + 1]))

\* C4 witness: two or more items were returned in by-index mode, in another order
\* than they were found
C4_Witness ==
    /\ Succeeded /\ ByIndex
    /\ Len(Out) >= 2
    /\ Out # Flatten(items)
    /\ DirectiveValue(ItemComments(Out[1])) = 1

\* the custom types and function groups the claims speak of, from the metadata
Types == {metadata.custom_types[k] : k \in 1..Len(metadata.custom_types)}
\* documented, but no line of the comments holds the directive
TypeLacksDirective(ty) == IsSome(ty.doc_comments) /\ ~HasDirective(Unwrap(ty.doc_comments))
GroupLacksDirective(n) == Documented(n) /\ ~Anonymous(n) /\ ~HasDirective(RootComments(n))
\* documented, and the text after the directive is no integer
TypeDirectiveInvalid(ty) ==
    /\ IsSome(ty.doc_comments)
    /\ HasDirective(Unwrap(ty.doc_comments))
    /\ ~DirectiveParses(Unwrap(ty.doc_comments))
GroupDirectiveInvalid(n) ==
    /\ Documented(n) /\ ~Anonymous(n)
    /\ HasDirective(RootComments(n))
    /\ ~DirectiveParses(RootComments(n))
\* the items of v that are the function group n, the custom type ty
FunctionItems(v, n) == {k \in 1..Len(v) : v[k].kind = "Function" /\ v[k].name = n}
TypeItems(v, ty) == {k \in 1..Len(v) : v[k].kind = "CustomType" /\ v[k].metadata = ty}
\* C5 as claimed: in by-index mode a documented item without a directive makes the
\* build fail.
C5_MissingDirectiveFails ==
    (Returned /\ ByIndex
       /\ ((\E ty \in Types : TypeLacksDirective(ty))
           \/ (\E n \in GroupNames : GroupLacksDirective(n))))
    => Failed

\* C5 amended: in by-index mode a documented custom type or function group without
\* a directive is left out of the returned items, and the missing directive is no
\* error: a module in which no directive fails to parse builds successfully,
\* whatever items lack a directive.
C5_MissingDirectiveDropped ==
    (Returned /\ ByIndex) =>
        /\ Succeeded =>
              /\ \A ty \in Types : TypeLacksDirective(ty) => TypeItems(Out, ty) = {}
              /\ \A n \in GroupNames : GroupLacksDirective(n) => FunctionItems(Out, n) = {}
        /\ ((\A ty \in Types : ~TypeDirectiveInvalid(ty))
             /\ (\A n \in GroupNames : ~GroupDirectiveInvalid(n))) => Succeeded

\* C5 witness: a by-index build succeeded on a module with a documented custom type
\* and a documented function group that have no directive
C5_Witness ==
    /\ Succeeded /\ ByIndex
    /\ \E ty \in Types : TypeLacksDirective(ty)
    /\ \E n \in GroupNames : GroupLacksDirective(n)

\* C6: in by-index mode a function with doc comments and no directive is left out,
\* the build succeeds all the same (no custom type having an invalid directive),
\* and every other function group and custom type with a valid directive is
\* returned, in directive order.
C6_UndirectedFunctionHidden ==
    (Returned /\ ByIndex
       /\ (\E n \in GroupNames : GroupLacksDirective(n))
       /\ ~(\E ty \in Types : TypeDirectiveInvalid(ty)))
    => /\ Succeeded
       /\ \A n \in GroupNames : GroupLacksDirective(n) => FunctionItems(Out, n) = {}
       /\ \A n \in GroupNames :
             (Documented(n) /\ ~Anonymous(n) /\ DirectiveParses(RootComments(n)))
             => \E k \in FunctionItems(Out, n) : Out[k].index = DirectiveValue(RootComments(n))
       /\ \A ty \in Types :
             (IsSome(ty.doc_comments) /\ DirectiveParses(Unwrap(ty.doc_comments)))
             => \E k \in TypeItems(Out, ty) :
                   Out[k].index = DirectiveValue(Unwrap(ty.doc_comments))
       /\ \A k \in 1..(Len(Out) - 1) : Out[k].index <= Out[k + 1].index

\* C6 witness: a by-index build with a hidden function returned two other items
C6_Witness ==
    /\ Succeeded /\ ByIndex
    /\ \E n \in GroupNames : GroupLacksDirective(n)
    /\ Len(Out) = 2
    /\ Out[1].index < Out[2].index

\* C7 as claimed: in by-index mode a directive that is no integer, on a custom type
\* or on a function group, makes the build fail.
C7_InvalidDirectiveFails ==
    (Returned /\ ByIndex
       /\ ((\E ty \in Types : TypeDirectiveInvalid(ty))
           \/ (\E n \in GroupNames : GroupDirectiveInvalid(n))))
    => Failed

\* C8: a function group without any documented overload is never among the items,
\* built or returned, in either mode, and no failure comes from the function loop.
C8_UndocumentedGroupDropped ==
    /\ \A n \in GroupNames :
          ~Documented(n) =>
             /\ FunctionItems(Flatten(items), n) = {}
             /\ FunctionItems(md_items, n) = {}
             /\ Succeeded => FunctionItems(Out, n) = {}
    /\ (Failed /\ \E n \in GroupNames : ~Documented(n)) =>
          /\ ti < Len(metadata.custom_types)
          /\ ~new_custom_type(metadata.custom_types[ti + 1], options).ok
          /\ function_groups = <<>>

\* C8 witness: a build returned an item for a module that also has an undocumented
\* function group
C8_Witness ==
    /\ Succeeded
    /\ \E n \in GroupNames : ~Documented(n)
    /\ Len(Out) >= 1
    /\ function_groups # <<>>

\* C9 as claimed: a custom type without doc comments is never among the returned
\* items, in either mode.
C9_UndocumentedTypeDropped ==
    Succeeded => \A ty \in Types : IsNone(ty.doc_comments) => TypeItems(Out, ty) = {}

\* the signatures of all the overloads of the group n, in the order of the metadata
SignaturesOf(n) ==
    join([k \in 1..Len(Overloads(n)) |->
             display(generate_function_definition(Overloads(n)[k]))], <<NL>>)
\* the first overload of the group n that has doc comments
RootOf(n) ==
    LET ov == Overloads(n)
    IN  ov[MinOf({k \in 1..Len(ov) : IsSome(ov[k].doc_comments)})]
\* the item of a documented group, as the claim describes it
IsItemOfGroup(item, n) ==
    /\ item.root_metadata = RootOf(n)
    /\ ItemSignatures(item) = SignaturesOf(n)

\* C10 as claimed: a group with a documented overload yields exactly one item.
C10_ExactlyOneItem ==
    Succeeded =>
        \A n \in GroupNames :
            Documented(n) =>
                /\ Cardinality(FunctionItems(Out, n)) = 1
                /\ \A k \in FunctionItems(Out, n) : IsItemOfGroup(Out[k], n)

\* C10 amended: a group with a documented overload yields at most one item, and
\* exactly one when its name is not anonymous and, in by-index mode, the comments of
\* its first documented overload hold a directive that parses; the item's root is
\* the first documented overload and its signatures are those of all overloads.
C10_OneItemWhenRetained ==
    Succeeded =>
        \A n \in GroupNames :
            Documented(n) =>
                /\ Cardinality(FunctionItems(Out, n)) <= 1
                /\ (~Anonymous(n) /\ (ByIndex => DirectiveParses(RootComments(n))))
                   => Cardinality(FunctionItems(Out, n)) = 1
                /\ \A k \in FunctionItems(Out, n) : IsItemOfGroup(Out[k], n)

\* C10 witness: the group f, one documented overload after an undocumented one, was
\* returned as one item listing both signatures
C10_Witness ==
    /\ Succeeded
    /\ metadata.functions = <<FN_F_PLAIN, FN_F_DOC>>
    /\ Len(Out) = 1
    /\ Out[1].root_metadata = FN_F_DOC
    /\ ItemSignatures(Out[1]) = <<"f", "n", " ", "f", "(", ")">> \o <<NL>> \o <<"f", "n", " ", "f", "(", "a", ":", " ", "i", "n", "t", ")", " ", "-", ">", " ", "i", "n", "t">>

----------------------------------------------------------------------------
(* function.rs: the signature synthesizer on one function record *)

MaxParams == 2

\* names of function records, as the engine emits them
NAME_ADD == <<"a", "d", "d">>
NAME_INTO == <<"i", "n", "t", "o">>
NAME_EQ == <<"=", "=">>
NAME_GE == <<">", "=">>
NAME_IN == <<"i", "n">>
NAME_GET_AGE == <<"g", "e", "t", "$", "a", "g", "e">>
NAME_SET_AGE == <<"s", "e", "t", "$", "a", "g", "e">>
NAME_INDEX_GET == <<"i", "n", "d", "e", "x", "$", "g", "e", "t", "$">>
NAME_INDEX_SET == <<"i", "n", "d", "e", "x", "$", "s", "e", "t", "$">>
NamePool == {NAME_ADD, NAME_INTO, NAME_EQ, NAME_GE, NAME_IN, NAME_GET_AGE, NAME_SET_AGE,
             NAME_INDEX_GET, NAME_INDEX_SET}

\* raw type names
TY_INT == <<"I", "N", "T">>
TY_MYTYPE == <<"M", "y", "T", "y", "p", "e">>
TY_UNIT == <<"(", ")">>
TY_RESULT_INT == <<"R", "e", "s", "u", "l", "t", "<", "I", "N", "T", ",", " ", "B", "o", "x", "<", "E", "v", "a", "l", "A", "l", "t", "R", "e", "s", "u", "l", "t", ">", ">">>

\* parameter descriptors: a: INT, b: INT, obj: MyType, u: (), and one without keys
P_A == Param(<<"a">>, TY_INT)
P_B == Param(<<"b">>, TY_INT)
P_OBJ == Param(<<"o", "b", "j">>, TY_MYTYPE)
P_UNIT == Param(<<"u">>, TY_UNIT)
P_EMPTY == [name |-> None, type |-> None]
ParamPool == {P_A, P_B, P_OBJ, P_UNIT, P_EMPTY}

ReturnPool == {None, Some(TY_INT), Some(TY_UNIT), Some(TY_RESULT_INT)}

\* function.rs:7-18: a decoded function record; num_params is the arity the engine
\* declares, params holds the descriptors it could give (possibly fewer, or none)
InitSignature ==
    /\ \E name \in NamePool, ps \in BSeq(ParamPool, MaxParams), rt \in ReturnPool,
          present \in BOOLEAN :
          \E n \in Len(ps)..MaxParams :
             fn_metadata = [name |-> name, num_params |-> n,
                            params |-> IF present \/ ps # <<>> THEN Some(ps) ELSE None,
                            return_type |-> rt, doc_comments |-> None]
    /\ definition = None /\ signature = None /\ sgc = "new"
    /\ ScanIdle /\ RtIdle /\ BuildIdle /\ TreeIdle

\* function.rs:23-29  self.generate_function_definition()
GenerateDefinition ==
    /\ sgc = "new"
    /\ definition' = Some(generate_function_definition(fn_metadata))
    /\ sgc' = "display"
    /\ UNCHANGED <<fn_metadata, signature>>
    /\ UNCHANGED scanVars /\ UNCHANGED rtVars /\ UNCHANGED buildVars /\ UNCHANGED treeVars

\* function.rs:229-295  definition.display()
Display ==
    /\ sgc = "display"
    /\ signature' = Some(display(Unwrap(definition)))
    /\ sgc' = "done"
    /\ UNCHANGED <<fn_metadata, definition>>
    /\ UNCHANGED scanVars /\ UNCHANGED rtVars /\ UNCHANGED buildVars /\ UNCHANGED treeVars

NextSignature == GenerateDefinition \/ Display

SpecSignature == InitSignature /\ [][NextSignature]_vars

----------------------------------------------------------------------------
(* the signature claims *)

Rendered == sgc = "done"
Params == IF IsSome(fn_metadata.params) THEN Unwrap(fn_metadata.params) ELSE <<>>
OperatorSymbols == {<<"=", "=">>, <<"!", "=">>, <<">">>, <<">", "=">>, <<"<">>, <<"<", "=">>, <<"i", "n">>}
ReservedPrefixes == {<<"g", "e", "t", "$">>, <<"s", "e", "t", "$">>, <<"i", "n", "d", "e", "x", "$", "g", "e", "t", "$">>, <<"i", "n", "d", "e", "x", "$", "s", "e", "t", "$">>}
PlainName(n) == n \notin OperatorSymbols /\ \A p \in ReservedPrefixes : ~StartsWith(n, p)
\* the documented alias of a raw type name
Aliased == {TY_INT, TY_MYTYPE}
Alias(ty) == IF ty = TY_INT THEN <<"i", "n", "t">> ELSE ty
\* a descriptor with a name and a type that has an alias
Described(p) == IsSome(p.name) /\ IsSome(p.type) /\ Unwrap(p.type) \in Aliased
\* p1: T1, ..., pn: Tn
ParameterList(ps) ==
    join([k \in 1..Len(ps) |-> Unwrap(ps[k].name) \o <<":", " ">> \o Alias(Unwrap(ps[k].type))], <<",", " ">>)

\* C11: a record with a plain name, described parameters and an aliased return type
\* renders as fn name(p1: T1, ..., pn: Tn) -> Ret, parameters in declared order and
\* INT written int.
C11_FunctionSignature ==
    (Rendered /\ PlainName(fn_metadata.name)
       /\ (\A k \in 1..Len(Params) : Described(Params[k]))
       /\ IsSome(fn_metadata.return_type) /\ Unwrap(fn_metadata.return_type) \in Aliased)
    => Unwrap(signature) =
          <<"f", "n", " ">> \o fn_metadata.name \o <<"(">> \o ParameterList(Params) \o <<")", " ", "-", ">", " ">>
          \o Alias(Unwrap(fn_metadata.return_type))

\* C11 witness: add(a: INT, b: INT) -> INT was rendered as fn add(a: int, b: int) -> int
C11_Witness ==
    /\ Rendered
    /\ fn_metadata.name = NAME_ADD /\ Params = <<P_A, P_B>>
    /\ fn_metadata.return_type = Some(TY_INT)
    /\ Unwrap(signature) = <<"f", "n", " ", "a", "d", "d", "(", "a", ":", " ", "i", "n", "t", ",", " ", "b", ":", " ", "i", "n", "t", ")", " ", "-", ">", " ", "i", "n", "t">>

\* C12 as claimed: get$age with the single parameter obj: MyType and no return type is
\* a Get with target MyType and field age, rendered exactly as get MyType.age.
C12_GetAge ==
    (Rendered /\ fn_metadata.name = NAME_GET_AGE /\ Params = <<P_OBJ>>
       /\ fn_metadata.num_params = 1 /\ IsNone(fn_metadata.return_type))
    => /\ Unwrap(definition).kind = "Get"
       /\ Unwrap(definition).target.ty = TY_MYTYPE
       /\ Unwrap(definition).index.name = <<"a", "g", "e">>
       /\ Unwrap(signature) = <<"g", "e", "t", " ", "M", "y", "T", "y", "p", "e", ".", "a", "g", "e">>

\* the kinds whose signature can show a return type
ShowsReturn == {"Function", "Operator", "Get", "IndexGet"}
\* the signature the same definition has when it returns int
WithReturn(def) == display([def EXCEPT !.return_type = Some(<<"i", "n", "t">>)])

\* C13 as claimed: when the return type is absent or unit, the signature of a kind
\* that can show a return type is the signature with the  -> Ret  part left off and
\* nothing in its place.
C13_UnitReturnOmitted ==
    (Rendered /\ Unwrap(definition).kind \in ShowsReturn
       /\ (IsNone(fn_metadata.return_type) \/ fn_metadata.return_type = Some(TY_UNIT)))
    => Unwrap(signature) \o <<" ", "-", ">", " ", "i", "n", "t">> = WithReturn(Unwrap(definition))

\* the kind the name stands for
KindsOfName(n) ==
    {k \in {"Operator", "Get", "Set", "IndexGet", "IndexSet", "Function"} :
        \/ k = "Operator" /\ n \in OperatorSymbols
        \/ k = "Get" /\ n \notin OperatorSymbols /\ StartsWith(n, <<"g", "e", "t", "$">>)
        \/ k = "Set" /\ n \notin OperatorSymbols /\ StartsWith(n, <<"s", "e", "t", "$">>)
        \/ k = "IndexGet" /\ n \notin OperatorSymbols /\ StartsWith(n, <<"i", "n", "d", "e", "x", "$", "g", "e", "t", "$">>)
        \/ k = "IndexSet" /\ n \notin OperatorSymbols /\ StartsWith(n, <<"i", "n", "d", "e", "x", "$", "s", "e", "t", "$">>)
        \/ k = "Function" /\ PlainName(n)}

\* C14: the kind of a record is determined by its name alone, whatever its
\* parameters and return type: exactly one kind stands for the name, and it is the
\* kind of the definition.
C14_KindFromName ==
    IsSome(definition) => KindsOfName(fn_metadata.name) = {Unwrap(definition).kind}

\* C14 witness: the names in, into and index$set$ were classified, with and without
\* parameters
C14_Witness ==
    /\ IsSome(definition)
    /\ fn_metadata.name = NAME_IN /\ Unwrap(definition).kind = "Operator"
    /\ Params = <<P_A, P_OBJ>> /\ IsSome(fn_metadata.return_type)

\* the k-th argument slot of a signature
Slot(k) == ArgToString(get_arg(Params, k - 1))

\* C15 as claimed: the signature of a Function record has exactly numParams slots,
\* those without descriptor or resolvable type being _: ?.
C15_NumParamsSlots ==
    (Rendered /\ Unwrap(definition).kind = "Function")
    => /\ Len(Unwrap(definition).args) = fn_metadata.num_params
       /\ StartsWith(Unwrap(signature),
             <<"f", "n", " ">> \o fn_metadata.name \o <<"(">>
             \o join([k \in 1..fn_metadata.num_params |-> Slot(k)], <<",", " ">>) \o <<")">>)

----------------------------------------------------------------------------
(* the ordering claims *)

Alphabetical == options.items_order = "Alphabetical"
\* the items of v that have the name n, in the order they have in v
Named(v, n) == SelectSeq(v, LAMBDA i : ItemGetName(i) = n)

\* C16: in alphabetical mode the returned items are a permutation of the retained
\* items, in non-decreasing order of name, and items of equal name keep the order in
\* which they were found.
C16_AlphabeticalStable ==
    (Succeeded /\ Alphabetical) =>
        /\ IsPermutation(Out, Flatten(items))
        /\ \A k \in 1..(Len(Out) - 1) : ~StrLess(ItemGetName(Out[k + 1]), ItemGetName(Out[k]))
        /\ \A k \in 1..Len(Out) :
              Named(Out, ItemGetName(Out[k])) = Named(Flatten(items), ItemGetName(Out[k]))

\* C16 witness: the type f and the function f, equal in name, were returned in the
\* order they were found, before an item that was found between them
C16_Witness ==
    /\ Succeeded /\ Alphabetical
    /\ Len(Out) = 3 /\ Out # Flatten(items)
    /\ Out[1].kind = "CustomType" /\ Out[2].kind = "Function"
    /\ ItemGetName(Out[1]) = ItemGetName(Out[2])

\* the sequences that list the elements of s in another order
Reorderings(s) == {t \in [1..Len(s) -> {s[k] : k \in 1..Len(s)}] : IsPermutation(t, s)}
\* the items an alphabetical run returns for the custom types ct and the functions
\* fns, the map of the function groups being iterated in the order keys
AlphabeticalRun(ct, fns, keys) ==
    LET opts == [items_order |-> "Alphabetical"]
        groups == group_functions(fns)
    IN  order_items(opts, Flatten(
            [k \in 1..Len(ct) |-> new_custom_type(ct[k], opts).v]
            \o [k \in 1..Len(keys) |-> new_function(groups[keys[k]], keys[k], opts).v]))

\* C17 as claimed: in alphabetical mode every run over the same custom types and
\* functions, listed in any order, the map iterated in any order, returns the same
\* list of items.
C17_SameItemsForPermutedInput ==
    (Succeeded /\ Alphabetical) =>
        \A ct \in Reorderings(metadata.custom_types), fns \in Reorderings(metadata.functions) :
            \A keys \in Iterations(DOMAIN group_functions(fns)) :
                AlphabeticalRun(ct, fns, keys) = Out

\* the items of the name n, as the metadata alone gives them: the custom types of
\* that display name in listed order, then the function group of that name
TypesNamed(n) == SelectSeq(metadata.custom_types, LAMBDA t : t.display_name = n)
ExpectedNamed(n) ==
    [k \in 1..Len(TypesNamed(n)) |-> ItemCustomType(TypesNamed(n)[k], 0)]
    \o (IF n \in GroupNames /\ Documented(n) /\ ~Anonymous(n)
        THEN <<ItemFunction(RootOf(n), Overloads(n), n, 0)>> ELSE <<>>)
ItemNames ==
    GroupNames \cup {metadata.custom_types[k].display_name : k \in 1..Len(metadata.custom_types)}
    \cup {ItemGetName(Out[k]) : k \in 1..Len(Out)}

\* the kinds and names of the items of v, in their order
KindsAndNames(v) == [k \in 1..Len(v) |-> <<v[k].kind, ItemGetName(v[k])>>]
\* the listing ct, fns keeps the custom types of each display name and the
\* overloads of each function group in the order the metadata lists them
KeepsTies(ct, fns) ==
    /\ \A k \in 1..Len(ct) :
          SelectSeq(ct, LAMBDA t : t.display_name = ct[k].display_name)
             = TypesNamed(ct[k].display_name)
    /\ \A k \in 1..Len(fns) :
          SelectSeq(fns, LAMBDA m : KeyOf(m) = KeyOf(fns[k])) = Overloads(KeyOf(fns[k]))

\* C17 amended: in alphabetical mode a run over the same custom types and
\* functions listed in another order, the map iterated in any order, returns
\* items of the same kinds and names in the same order, and the same items when
\* the other listing keeps the order of the overloads within each group and of
\* the custom types of equal display name.  The names come out in non-decreasing
\* order and the items of each name are the custom types of that name in listed
\* order, then the function group of that name with its overloads in listed order.
C17_SameOrderForPermutedInput ==
    (Succeeded /\ Alphabetical) =>
        /\ \A k \in 1..(Len(Out) - 1) : ~StrLess(ItemGetName(Out[k + 1]), ItemGetName(Out[k]))
        /\ \A n \in ItemNames : Named(Out, n) = ExpectedNamed(n)
        /\ \A ct \in Reorderings(metadata.custom_types),
              fns \in Reorderings(metadata.functions) :
              \A keys \in Iterations(DOMAIN group_functions(fns)) :
                  /\ KindsAndNames(AlphabeticalRun(ct, fns, keys)) = KindsAndNames(Out)
                  /\ KeepsTies(ct, fns) => AlphabeticalRun(ct, fns, keys) = Out

\* C17 witness: a run over two custom types of one display name and two function
\* groups returned its items; the metadata can list the types in two orders and
\* the functions in two orders, and the map can be iterated in two orders
C17_Witness ==
    /\ Succeeded /\ Alphabetical
    /\ Len(metadata.custom_types) = 2
    /\ metadata.custom_types[1] # metadata.custom_types[2]
    /\ metadata.custom_types[1].display_name = metadata.custom_types[2].display_name
    /\ Len(metadata.functions) = 2 /\ Cardinality(DOMAIN function_groups) = 2
    /\ Len(Out) = 4 /\ Out # Flatten(items)

\* the directive values of the items that have one that parses, custom types first
CandidateValues ==
    [k \in {j \in 1..Len(metadata.custom_types) :
               IsSome(metadata.custom_types[j].doc_comments)
               /\ DirectiveParses(Unwrap(metadata.custom_types[j].doc_comments))}
       |-> DirectiveValue(Unwrap(metadata.custom_types[k].doc_comments))]
GroupValue(n) == DirectiveValue(RootComments(n))
Candidate(n) == Documented(n) /\ ~Anonymous(n) /\ DirectiveParses(RootComments(n))
\* N: the number of items of the module that have a directive
NumCandidates ==
    Cardinality(DOMAIN CandidateValues) + Cardinality({n \in GroupNames : Candidate(n)})

\* C19 as claimed: in by-index mode the indexes of the returned items are pairwise
\* distinct.
C19_IndexesDistinct ==
    (Succeeded /\ ByIndex) =>
        \A i, j \in 1..Len(Out) : Out[i].index = Out[j].index => i = j

\* a value that is no slot among n items
OutOfRange(v, n) == v = 0 \/ v > n

\* C20 as claimed: in by-index mode a directive value that is 0 or greater than the
\* number of items of the module makes the build fail.
C20_OutOfRangeFails ==
    (Returned /\ ByIndex
       /\ ((\E k \in DOMAIN CandidateValues : OutOfRange(CandidateValues[k], NumCandidates))
           \/ (\E n \in GroupNames : Candidate(n) /\ OutOfRange(GroupValue(n), NumCandidates))))
    => Failed

\* C20 amended: in by-index mode a directive value is a sort key and nothing else:
\* an item whose value is 0 or greater than the number of items is returned with
\* that value as its index, in its place in the order, and no build fails for it.
C20_OutOfRangeAccepted ==
    (Returned /\ ByIndex) =>
        /\ Succeeded =>
              /\ \A k \in DOMAIN CandidateValues :
                    OutOfRange(CandidateValues[k], NumCandidates)
                    => \E i \in TypeItems(Out, metadata.custom_types[k]) :
                          Out[i].index = CandidateValues[k]
              /\ \A n \in GroupNames :
                    (Candidate(n) /\ OutOfRange(GroupValue(n), NumCandidates))
                    => \E i \in FunctionItems(Out, n) : Out[i].index = GroupValue(n)
              /\ \A i \in 1..(Len(Out) - 1) : Out[i].index <= Out[i + 1].index
        /\ Failed => \E ty \in Types : TypeDirectiveInvalid(ty)

\* C20 witness: a by-index build returned an item of index 0 before an item whose
\* index is greater than the number of items
C20_Witness ==
    /\ Succeeded /\ ByIndex
    /\ Len(Out) = 2 /\ NumCandidates = 2
    /\ Out[1].index = 0 /\ Out[2].index > 2

----------------------------------------------------------------------------
(* the directive in the sections of an item *)

\* the text of the directive, after the heading marker
DIRECTIVE_TEXT == SubSeq(RHAI_ITEM_INDEX_PATTERN, Len(HEADING) + 1, Len(RHAI_ITEM_INDEX_PATTERN))

\* C18: no name and no body of a section holds the directive, wherever the directive
\* line stands in the comment block, inside a code fence or not; the extraction
\* takes no ordering option, so this is so in both modes.
C18_DirectiveStripped ==
    \A k \in 1..Len(sections) :
        /\ ~Contains(sections[k].name, DIRECTIVE_TEXT)
        /\ ~Contains(sections[k].body, DIRECTIVE_TEXT)

\* C18 witness: the sections of a block with a directive line inside a fenced code
\* block and another one outside were extracted, with text before and after them
C18_Witness ==
    /\ spc = "done" /\ Len(sections) >= 1
    /\ \E i, j \in 1..Len(doc_lines) :
          /\ IsDirective(doc_lines[i]) /\ InsideFence(i)
          /\ IsDirective(doc_lines[j]) /\ ~InsideFence(j)
    /\ \E k \in 1..Len(sections) : sections[k].body # <<>>

----------------------------------------------------------------------------
(* The first section, the section names, and extraction of an extracted body *)

\* the state of in_code_block once line i has been looked at (item.rs:243-245)
InBlockAt(i) ==
    Cardinality({j \in 1..i : IsSome(split_once(doc_lines[j], FENCE))}) % 2 = 1
\* line i is a heading line: it closes the current section and names the next
OpensSection(i) == StartsSection(doc_lines[i], InBlockAt(i))
\* line i is the first heading line and no line before it went to a body
HeadingFirst(i) ==
    /\ OpensSection(i)
    /\ \A j \in 1..(i - 1) : IsSome(split_once(doc_lines[j], HEADING)) /\ ~OpensSection(j)
HeadingName(i) == Unwrap(split_once(doc_lines[i], HEADING))[2]

\* C23: the first section returned is named Description, except when a heading
\* line comes before any body text: the first section then carries the name of
\* that heading and no section named Description is returned.
C23_FirstSection ==
    (spc = "done" /\ sections # <<>>) =>
        IF \E i \in 1..Len(doc_lines) : HeadingFirst(i)
        THEN \A i \in 1..Len(doc_lines) :
                HeadingFirst(i) =>
                    /\ sections[1].name = HeadingName(i)
                    /\ \A k \in 1..Len(sections) : sections[k].name # DESCRIPTION
        ELSE sections[1].name = DESCRIPTION

\* C24: no section returned by extract_sections has an empty name.
C24_NoEmptyName ==
    spc = "done" => \A k \in 1..Len(sections) : sections[k].name # <<>>

\* the body extract_sections was applied to a second time holds no heading marker
ExtractedBody == IsSome(rescan_of) /\ ~Contains(Unwrap(rescan_of), HEADING)

EndsLineWithCR(s) ==
    /\ s # <<>>
    /\ \/ s[Len(s)] = CR
       \/ \E i \in 1..(Len(s) - 1) : s[i] = CR /\ s[i + 1] = NL
\* s ends with a line feed: its last line is blank
EndsWithNL(s) == s # <<>> /\ s[Len(s)] = NL

----------------------------------------------------------------------------
(* The function groups, the index of a group, and the glossary *)

\* the records a group holds
Members(s) == {s[k] : k \in 1..Len(s)}
\* the HashMap of group_functions has been built
Grouped == pc = "functions"

\* C26: group_functions partitions the function list: every record is in exactly
\* one group, as often as it is listed, no group is empty, and a group lists its
\* overloads in the order of the function list.
C26_GroupsPartition ==
    Grouped =>
        /\ \A n \in DOMAIN function_groups : function_groups[n] # <<>>
        /\ \A k \in 1..Len(metadata.functions) :
              Cardinality({n \in DOMAIN function_groups :
                              metadata.functions[k] \in Members(function_groups[n])}) = 1
        /\ \A n \in DOMAIN function_groups :
              function_groups[n] =
                  SelectSeq(metadata.functions,
                            LAMBDA m : m \in Members(function_groups[n]))

\* C26 witness: a group of two different overloads was built
C26_Witness ==
    /\ Grouped
    /\ \E n \in DOMAIN function_groups :
          /\ Len(function_groups[n]) >= 2
          /\ function_groups[n][1] # function_groups[n][2]

\* the name of a record without its reserved prefix
StripReserved(n) ==
    IF \E p \in ReservedPrefixes : StartsWith(n, p)
    THEN LET p == CHOOSE q \in ReservedPrefixes : StartsWith(n, q)
         IN  SubSeq(n, Len(p) + 1, Len(n))
    ELSE n

\* C27: the group key of a record is its name without the reserved prefix,
\* whatever its parameters.
C27_KeyFromName ==
    IsSome(definition) => DefinitionName(Unwrap(definition)) = StripReserved(fn_metadata.name)

\* C28: in by-index mode the index of a function group is read from the comments
\* of its first documented overload only: the group is returned with the value of
\* that directive, and is not returned when those comments hold no directive,
\* whatever the other overloads carry.
C28_IndexFromRootOnly ==
    (Succeeded /\ ByIndex) =>
        \A n \in GroupNames :
            (Documented(n) /\ ~Anonymous(n)) =>
                IF DirectiveParses(RootComments(n))
                THEN /\ FunctionItems(Out, n) # {}
                     /\ \A k \in FunctionItems(Out, n) :
                           Out[k].index = DirectiveValue(RootComments(n))
                ELSE FunctionItems(Out, n) = {}

\* C28 witness: a by-index build dropped a group whose first documented overload
\* has no directive while a later overload has one
C28_Witness ==
    /\ Succeeded /\ ByIndex
    /\ \E n \in GroupNames :
          /\ Documented(n) /\ ~Anonymous(n)
          /\ ~HasDirective(RootComments(n))
          /\ \E k \in 1..Len(Overloads(n)) :
                HasDirective(CommentsOr(Overloads(n)[k].doc_comments))
          /\ FunctionItems(Out, n) = {}

\* C29: the glossary and the documentation of the same metadata under the same
\* options fail together, and when both succeed the glossary lists the signatures
\* of the returned items, in their order.
C29_GlossaryAgrees ==
    (Returned /\ IsSome(glossary)) =>
        /\ Unwrap(glossary).ok <=> Succeeded
        /\ (Unwrap(glossary).ok /\ Succeeded) =>
              Unwrap(glossary).v.content =
                  GlossaryContent(GLOBAL, GlossarySignatures(Out))

----------------------------------------------------------------------------
(* generate_module_documentation_inner over a module with sub-modules           *)
(* (module.rs:84-143): one frame of stack per call in progress                  *)

\* serde_json::Value: null, a boolean, a number, a string, an array of values or
\* an object of values under its keys; the numbers are the integers. Each kind
\* holds its content in a field of its own
JSON_NULL == [json |-> "null"]
JsonBool(b) == [json |-> "bool", b |-> b]
JsonNumber(n) == [json |-> "number", n |-> n]
JsonString(s) == [json |-> "string", s |-> s]
JsonArray(v) == [json |-> "array", a |-> v]
JsonObject(m) == [json |-> "object", o |-> m]
JSON_NUMBER == JsonNumber(0)

\* module.rs:48-59  #[serde(rename_all = "camelCase")]: the keys of the fields
KEY_DOC == <<"d", "o", "c">>
KEY_FUNCTIONS == <<"f", "u", "n", "c", "t", "i", "o", "n", "s">>
KEY_CUSTOM_TYPES == <<"c", "u", "s", "t", "o", "m", "T", "y", "p", "e", "s">>
KEY_MODULES == <<"m", "o", "d", "u", "l", "e", "s">>

\* function.rs:5-18  #[serde(rename_all = "camelCase")]: the keys of the fields of
\* FunctionMetadata, in the order of the fields
FunctionFields ==
    <<<<"a", "c", "c", "e", "s", "s">>, <<"b", "a", "s", "e", "H", "a", "s", "h">>,
      <<"f", "u", "l", "l", "H", "a", "s", "h">>, <<"n", "a", "m", "e">>,
      <<"n", "a", "m", "e", "s", "p", "a", "c", "e">>,
      <<"n", "u", "m", "P", "a", "r", "a", "m", "s">>,
      <<"p", "a", "r", "a", "m", "s">>, <<"s", "i", "g", "n", "a", "t", "u", "r", "e">>,
      <<"r", "e", "t", "u", "r", "n", "T", "y", "p", "e">>,
      <<"d", "o", "c", "C", "o", "m", "m", "e", "n", "t", "s">>>>

\* custom_types.rs:1-10: the keys of the fields of CustomTypesMetadata, in the
\* order of the fields
CustomTypeFields ==
    <<<<"t", "y", "p", "e", "N", "a", "m", "e">>,
      <<"d", "i", "s", "p", "l", "a", "y", "N", "a", "m", "e">>,
      <<"d", "o", "c", "C", "o", "m", "m", "e", "n", "t", "s">>>>

\* the keys of a parameter descriptor that function.rs:166-172 reads
KEY_NAME == <<"n", "a", "m", "e">>
KEY_TYPE == <<"t", "y", "p", "e">>

\* the value of a field of an object: a key that is absent reads as null, which
\* an Option decodes to None and no other type decodes
FieldOf(m, key) == IF key \in DOMAIN m THEN m[key] ELSE JSON_NULL

\* the values of the fields of an object, in the order of the keys; the other
\* keys of the object are ignored
FieldsOf(m, keys) == [k \in 1..Len(keys) |-> FieldOf(m, keys[k])]

\* the error of serde_json, which module.rs:137 and 321 wrap in
\* Error::ParseModuleMetadata
DecodeError == Err("ParseModuleMetadata")

\* String
DecodeString(x) == IF x.json = "string" THEN Ok(x.s) ELSE DecodeError

\* u128 and usize: a number that is not negative
DecodeUnsigned(x) == IF x.json = "number" /\ x.n >= 0 THEN Ok(x.n) ELSE DecodeError

\* Option<T>: null is None, any other value decodes as T
DecodeOption(x, Decode(_)) ==
    IF x.json = "null" THEN Ok(None)
    ELSE LET r == Decode(x) IN IF r.ok THEN Ok(Some(r.v)) ELSE DecodeError

\* Vec<T>: an array whose elements decode as T
DecodeVec(x, Decode(_)) ==
    IF x.json = "array"
    THEN LET r == [k \in 1..Len(x.a) |-> Decode(x.a[k])] IN
         IF \A k \in 1..Len(r) : r[k].ok THEN Ok([k \in 1..Len(r) |-> r[k].v])
         ELSE DecodeError
    ELSE DecodeError

\* Vec<String>
DecodeStrings(x) == DecodeVec(x, DecodeString)

\* HashMap<String, String>: an object whose values are strings; of its entries
\* the code reads those of "name" and "type" (function.rs:166-172)
DecodeParam(x) ==
    IF x.json = "object" /\ \A key \in DOMAIN x.o : x.o[key].json = "string"
    THEN Ok([name |-> IF KEY_NAME \in DOMAIN x.o THEN Some(x.o[KEY_NAME].s) ELSE None,
             type |-> IF KEY_TYPE \in DOMAIN x.o THEN Some(x.o[KEY_TYPE].s) ELSE None])
    ELSE DecodeError

\* Vec<HashMap<String, String>>
DecodeParams(x) == DecodeVec(x, DecodeParam)

\* function.rs:5-18  the derived Deserialize of FunctionMetadata on the values f
\* of its ten fields; the record keeps the fields the code reads
FunctionFromFields(f) ==
    LET params == DecodeOption(f[7], DecodeParams)
        return_type == DecodeOption(f[9], DecodeString)
        doc_comments == DecodeOption(f[10], DecodeStrings)
    IN  IF /\ DecodeString(f[1]).ok /\ DecodeUnsigned(f[2]).ok /\ DecodeUnsigned(f[3]).ok
           /\ DecodeString(f[4]).ok /\ DecodeString(f[5]).ok /\ DecodeUnsigned(f[6]).ok
           /\ params.ok /\ DecodeString(f[8]).ok /\ return_type.ok /\ doc_comments.ok
        THEN Ok([name |-> f[4].s,
                 num_params |-> f[6].n,
                 params |-> params.v,
                 return_type |-> return_type.v,
                 doc_comments |-> doc_comments.v])
        ELSE DecodeError

\* serde_json::from_value::<function::Metadata>: an object decodes by the keys of
\* the fields, an array of ten values by position; no other value decodes
DecodeFunction(e) ==
    IF e.json = "object" THEN FunctionFromFields(FieldsOf(e.o, FunctionFields))
    ELSE IF e.json = "array" /\ Len(e.a) = Len(FunctionFields) THEN FunctionFromFields(e.a)
    ELSE DecodeError

\* custom_types.rs:1-10  the derived Deserialize of CustomTypesMetadata on the
\* values f of its three fields
CustomTypeFromFields(f) ==
    LET doc_comments == DecodeOption(f[3], DecodeStrings)
    IN  IF DecodeString(f[1]).ok /\ DecodeString(f[2]).ok /\ doc_comments.ok
        THEN Ok([type_name |-> f[1].s,
                 display_name |-> f[2].s,
                 doc_comments |-> doc_comments.v])
        ELSE DecodeError

\* serde_json::from_value::<custom_types::Metadata>: an object decodes by the keys
\* of the fields, an array of three values by position
DecodeCustomType(e) ==
    IF e.json = "object" THEN CustomTypeFromFields(FieldsOf(e.o, CustomTypeFields))
    ELSE IF e.json = "array" /\ Len(e.a) = Len(CustomTypeFields)
    THEN CustomTypeFromFields(e.a)
    ELSE DecodeError

\* Vec<function::Metadata> and Vec<custom_types::Metadata>
DecodeFunctions(x) == DecodeVec(x, DecodeFunction)
DecodeCustomTypes(x) == DecodeVec(x, DecodeCustomType)

\* module.rs:48-59  the derived Deserialize of ModuleMetadata on the values of its
\* four fields; None of functions, custom_types and modules is the empty
\* collection, which the code treats alike (module.rs:110, 116, 130)
DecodeModule(doc, functions, custom_types, modules) ==
    LET d == DecodeOption(doc, DecodeString)
        f == DecodeOption(functions, DecodeFunctions)
        c == DecodeOption(custom_types, DecodeCustomTypes)
    IN  IF d.ok /\ f.ok /\ c.ok /\ modules.json \in {"null", "object"}
        THEN Ok([doc |-> d.v,
                 functions |-> IF IsSome(f.v) THEN Unwrap(f.v) ELSE <<>>,
                 custom_types |-> IF IsSome(c.v) THEN Unwrap(c.v) ELSE <<>>,
                 modules |-> IF modules.json = "null" THEN <<>> ELSE modules.o])
        ELSE DecodeError

\* a decoder that takes every value for a module
from_value_Lenient(value) ==
    IF value.json = "object"
       /\ DecodeModule(FieldOf(value.o, KEY_DOC), FieldOf(value.o, KEY_FUNCTIONS),
                       FieldOf(value.o, KEY_CUSTOM_TYPES), FieldOf(value.o, KEY_MODULES)).ok
    THEN DecodeModule(FieldOf(value.o, KEY_DOC), FieldOf(value.o, KEY_FUNCTIONS),
                      FieldOf(value.o, KEY_CUSTOM_TYPES), FieldOf(value.o, KEY_MODULES))
    ELSE Ok([doc |-> None, functions |-> <<>>, custom_types |-> <<>>, modules |-> <<>>])

\* module.rs:136-137  serde_json::from_value::<ModuleMetadata>(value.clone())
\*                        .map_err(Error::ParseModuleMetadata)
\* an object decodes by the keys of the fields (other keys are ignored), an array
\* of four values decodes by position, in the order of the fields; no other value
\* decodes
from_value(value) ==
    IF value.json = "object"
    THEN DecodeModule(FieldOf(value.o, KEY_DOC), FieldOf(value.o, KEY_FUNCTIONS),
                      FieldOf(value.o, KEY_CUSTOM_TYPES), FieldOf(value.o, KEY_MODULES))
    ELSE IF value.json = "array" /\ Len(value.a) = 4
    THEN DecodeModule(value.a[1], value.a[2], value.a[3], value.a[4])
    ELSE DecodeError

\* a namespace that is the name of the sub-module alone
SubNamespace_NameOnly(namespace, sub_module) == sub_module

\* module.rs:134  format!("{namespace}/{sub_module}")
SubNamespace(namespace, sub_module) == namespace \o <<"/">> \o sub_module

\* module.rs:93-98  the documentation of the module, from metadata.doc
ModuleDocumentation(md) ==
    IF IsSome(md.doc) THEN remove_test_code(fmt_doc_comments(Unwrap(md.doc))) ELSE <<>>

\* module.rs:90-106  let mut md = Documentation { .. }
NewDocumentation(namespace, name, md) ==
    [namespace |-> IF IsSome(namespace) THEN Unwrap(namespace) ELSE name,
     name |-> name,
     documentation |-> ModuleDocumentation(md),
     sub_modules |-> <<>>,
     items |-> <<>>]

\* one call of generate_module_documentation_inner: its metadata, the md it
\* builds, where it is, its items and function groups, and the keys of
\* metadata.modules its loop has not visited
Frame(namespace, name, md) ==
    [metadata |-> md, md |-> NewDocumentation(namespace, name, md),
     phase |-> "types", items |-> <<>>, groups |-> <<>>, pending |-> DOMAIN md.modules]

\* module.rs:116-127: md.items, the map groups being iterated in the order keys;
\* the error of a function group is dropped
ModuleItems(opts, types, groups, keys) ==
    LET fns == [k \in 1..Len(keys) |-> new_function(groups[keys[k]], keys[k], opts)]
        kept == SelectSeq(fns, LAMBDA r : r.ok)
    IN  order_items(opts, Flatten(types \o [k \in 1..Len(kept) |-> kept[k].v]))

\* a text that is no JSON document
NOT_JSON == [json |-> "invalid"]

\* module.rs:78-79  serde_json::from_str::<ModuleMetadata>(&json_fns)
\*                      .map_err(Error::ParseModuleMetadata)
\* the text is parsed, then decoded as from_value decodes the value it holds
from_str(text) == IF text.json = "invalid" THEN DecodeError ELSE from_value(text)

\* module.rs:74-76: gen_fn_metadata_to_json returned an error, which the outer
\* call returns as Error::ParseModuleMetadata
FailMetadata ==
    /\ tpc = "start"
    /\ ~Unwrap(json_fns).ok
    /\ tree_result' = Some(DecodeError)
    /\ tpc' = "failed"
    /\ UNCHANGED <<json_fns, tree_options, tree_metadata, stack, documents, gstack,
                   tree_glossary, glossary_document>>
    /\ UNCHANGED scanVars /\ UNCHANGED rtVars /\ UNCHANGED buildVars /\ UNCHANGED sigVars

\* module.rs:78-79: the text of the engine does not decode, the outer call
\* returns the error
FailParse ==
    /\ tpc = "start"
    /\ Unwrap(json_fns).ok
    /\ \E decoded \in {from_str(Unwrap(json_fns).v)} :
       /\ ~decoded.ok
       /\ tree_result' = Some(decoded)
    /\ tpc' = "failed"
    /\ UNCHANGED <<json_fns, tree_options, tree_metadata, stack, documents, gstack,
                   tree_glossary, glossary_document>>
    /\ UNCHANGED scanVars /\ UNCHANGED rtVars /\ UNCHANGED buildVars /\ UNCHANGED sigVars

\* module.rs:78-81: the text of the engine decodes, the outer call enters
\* generate_module_documentation_inner(options, None, "global", &metadata)
EnterRoot ==
    /\ tpc = "start"
    /\ Unwrap(json_fns).ok
    /\ \E decoded \in {from_str(Unwrap(json_fns).v)} :
       /\ decoded.ok
       /\ tree_metadata' = decoded.v
       /\ stack' = <<Frame(None, GLOBAL, decoded.v)>>
    /\ tpc' = "build"
    /\ UNCHANGED <<json_fns, tree_options, tree_result, documents, gstack, tree_glossary,
                   glossary_document>>
    /\ UNCHANGED scanVars /\ UNCHANGED rtVars /\ UNCHANGED buildVars /\ UNCHANGED sigVars

Building == tpc = "build" /\ stack # <<>>
Top == stack[Len(stack)]

\* module.rs:108-116: the custom types of the call at the top of the stack, then
\* group_functions
BuildTypes ==
    /\ Building /\ Top.phase = "types"
    /\ LET r == ModuleTypes(tree_options, Top.metadata) IN
       /\ r.ok
       /\ stack' = [stack EXCEPT ![Len(stack)].items = r.v,
                                 ![Len(stack)].groups = group_functions(Top.metadata.functions),
                                 ![Len(stack)].phase = "functions"]
    /\ UNCHANGED <<json_fns, tree_options, tree_metadata, tree_result, documents, tpc,
                   gstack, tree_glossary>>
    /\ UNCHANGED glossary_document
    /\ UNCHANGED scanVars /\ UNCHANGED rtVars /\ UNCHANGED buildVars /\ UNCHANGED sigVars

\* module.rs:112 and 138: the error of a custom type is returned by the call and,
\* through the ? of every caller, by the outer call
FailItems ==
    /\ Building /\ Top.phase = "types"
    /\ LET r == ModuleTypes(tree_options, Top.metadata) IN
       /\ ~r.ok
       /\ tree_result' = Some(r)
    /\ stack' = <<>>
    /\ tpc' = "failed"
    /\ UNCHANGED <<json_fns, tree_options, tree_metadata, documents, gstack, tree_glossary>>
    /\ UNCHANGED glossary_document
    /\ UNCHANGED scanVars /\ UNCHANGED rtVars /\ UNCHANGED buildVars /\ UNCHANGED sigVars

\* module.rs:117-127  the function groups, iterated in any order, and md.items
BuildItems ==
    /\ Building /\ Top.phase = "functions"
    /\ \E keys \in Iterations(DOMAIN Top.groups) :
          stack' = [stack EXCEPT
                       ![Len(stack)].md.items =
                           ModuleItems(tree_options, Top.items, Top.groups, keys),
                       ![Len(stack)].phase = "modules"]
    /\ UNCHANGED <<json_fns, tree_options, tree_metadata, tree_result, documents, tpc,
                   gstack, tree_glossary>>
    /\ UNCHANGED glossary_document
    /\ UNCHANGED scanVars /\ UNCHANGED rtVars /\ UNCHANGED buildVars /\ UNCHANGED sigVars

\* module.rs:131-138: the next entry of metadata.modules decodes, the call for the
\* sub-module starts
EnterSubModule ==
    /\ Building /\ Top.phase = "modules"
    /\ \E sub_module \in Top.pending :
          \E decoded \in {from_value(Top.metadata.modules[sub_module])} :
          /\ decoded.ok
          /\ stack' = Append([stack EXCEPT ![Len(stack)].pending = @ \ {sub_module}],
                             Frame(Some(SubNamespace(Top.md.namespace, sub_module)),
                                   sub_module, decoded.v))
    /\ UNCHANGED <<json_fns, tree_options, tree_metadata, tree_result, documents, tpc,
                   gstack, tree_glossary>>
    /\ UNCHANGED glossary_document
    /\ UNCHANGED scanVars /\ UNCHANGED rtVars /\ UNCHANGED buildVars /\ UNCHANGED sigVars

\* module.rs:136-138: the next entry of metadata.modules does not decode; the
\* error is returned by the call and, through the ? of every caller, by the outer call
FailDecode ==
    /\ Building /\ Top.phase = "modules"
    /\ \E sub_module \in Top.pending :
          \E decoded \in {from_value(Top.metadata.modules[sub_module])} :
          /\ ~decoded.ok
          /\ tree_result' = Some(decoded)
    /\ stack' = <<>>
    /\ tpc' = "failed"
    /\ UNCHANGED <<json_fns, tree_options, tree_metadata, documents, gstack, tree_glossary>>
    /\ UNCHANGED glossary_document
    /\ UNCHANGED scanVars /\ UNCHANGED rtVars /\ UNCHANGED buildVars /\ UNCHANGED sigVars

\* module.rs:132-142: the call for a sub-module returns Ok(md), which its caller
\* pushes to md.sub_modules
ReturnSubModule ==
    /\ Building /\ Top.phase = "modules" /\ Top.pending = {}
    /\ Len(stack) > 1
    /\ stack' = [SubSeq(stack, 1, Len(stack) - 1) EXCEPT
                    ![Len(stack) - 1].md.sub_modules = Append(@, Top.md)]
    /\ UNCHANGED <<json_fns, tree_options, tree_metadata, tree_result, documents, tpc,
                   gstack, tree_glossary>>
    /\ UNCHANGED glossary_document
    /\ UNCHANGED scanVars /\ UNCHANGED rtVars /\ UNCHANGED buildVars /\ UNCHANGED sigVars

\* module.rs:142  the outer call returns Ok(md)
ReturnRoot ==
    /\ Building /\ Top.phase = "modules" /\ Top.pending = {}
    /\ Len(stack) = 1
    /\ tree_result' = Some(Ok(Top.md))
    /\ stack' = <<>>
    /\ tpc' = "built"
    /\ UNCHANGED <<json_fns, tree_options, tree_metadata, documents, gstack, tree_glossary>>
    /\ UNCHANGED glossary_document
    /\ UNCHANGED scanVars /\ UNCHANGED rtVars /\ UNCHANGED buildVars /\ UNCHANGED sigVars

----------------------------------------------------------------------------
(* generate (generate.rs:337-362) *)

\* generate.rs:345  slug.map_or(format!("/{}", name), |slug| format!("{}/{}", slug, name))
SlugOf(slug, name) ==
    IF IsSome(slug) THEN Unwrap(slug) \o <<"/">> \o name ELSE <<"/">> \o name

\* generate.rs:348  "items": module.items, each item written by its Serialize
SerializedItems(v) == [k \in 1..Len(v) |-> serialize(v[k])]

\* generate.rs:343-354: the document of one module; the text of the template is
\* none of the sources, a document is the data the template is rendered with
render(module, slug) ==
    [title |-> module.name,
     slug |-> SlugOf(slug, module.name),
     description |-> module.documentation,
     namespace |-> module.namespace,
     items |-> SerializedItems(module.items)]

\* the left map, and the entries of the right map under other keys
Extended(new, old) ==
    [k \in DOMAIN new \cup DOMAIN old |-> IF k \in DOMAIN new THEN new[k] ELSE old[k]]

\* generate.rs:337-362: the HashMap of the documents of module and its sub-modules;
\* HashMap::extend replaces the entry of a key that is already there
RECURSIVE generate(_, _)
RECURSIVE ExtendLoop(_, _, _)
ExtendLoop(documentation, sub_modules, slug) ==
    IF sub_modules = <<>> THEN documentation
    ELSE ExtendLoop(Extended(generate(sub_modules[1], slug), documentation),
                    Tail(sub_modules), slug)

generate(module, slug) ==
    ExtendLoop([k \in {module.name} |-> render(module, slug)], module.sub_modules, slug)

SLUG_DOCS == <<"/", "d", "o", "c", "s">>

\* generate.rs:95-102  the colour of a definition, by its type_to_str
GlossaryColor(ty) ==
    IF ty = <<"o", "p">> THEN COLOR_OP
    ELSE IF ty \in {<<"g", "e", "t", "/", "s", "e", "t">>, <<"i", "n", "d", "e", "x", " ", "g", "e", "t", "/", "s", "e", "t">>}
    THEN COLOR_ACCESS
    ELSE COLOR_FN

\* generate.rs:104-108  the entry of one overload
FlattenOverload(ty, serialized) ==
    [color |-> GlossaryColor(ty), type |-> ty,
     definition |-> trim_start_matches(serialized, ty)]

\* generate.rs:92-108  the entry of one definition
FlattenDefinition(def) == FlattenOverload(type_to_str(def), display(def))

\* generate.rs:90-120  the entries of one item
FlattenItem(item) ==
    IF item.kind = "Function"
    THEN [k \in 1..Len(item.metadata) |->
             FlattenDefinition(generate_function_definition(item.metadata[k]))]
    ELSE << [color |-> COLOR_FN, type |-> <<"t", "y", "p", "e">>,
             definition |-> item.metadata.display_name] >>

\* generate.rs:88-120  let mut flatten_items, over module.items
RECURSIVE FlattenItems(_)
FlattenItems(v) == IF v = <<>> THEN <<>> ELSE FlattenItem(v[1]) \o FlattenItems(Tail(v))

\* generate.rs:124  the slug of the glossary
GlossarySlugOf(slug, name) ==
    (IF IsSome(slug) THEN Unwrap(slug) \o <<"/">> \o name ELSE <<"/">> \o name)
    \o <<"/", "g", "l", "o", "s", "s", "a", "r", "y">>

\* generate.rs:122-128: the glossary of generate_with_glossary; the text of the
\* template is none of the sources, the glossary is the data it is rendered with
render_glossary(module, slug) ==
    [title |-> module.name,
     slug |-> GlossarySlugOf(slug, module.name),
     items |-> FlattenItems(module.items)]

\* the documentation is in the hands of the caller: export returned it, or
\* export_with_glossary returned it with the glossary (export.rs:62-83)
Exported ==
    /\ tpc = "built" /\ gstack = <<>>
    /\ tree_glossary # None => Unwrap(tree_glossary).ok

\* generate.rs:46-70, 311-334 and 337-362  DocusaurusOptions::generate and
\* MDBookOptions::generate on the built tree
Generate ==
    /\ Exported
    /\ \E slug \in {None, Some(SLUG_DOCS)} :
          documents' = Some(Ok(generate(Unwrap(tree_result).v, slug)))
    /\ tpc' = "rendered"
    /\ UNCHANGED <<json_fns, tree_options, tree_metadata, stack, tree_result, gstack, tree_glossary>>
    /\ UNCHANGED glossary_document
    /\ UNCHANGED scanVars /\ UNCHANGED rtVars /\ UNCHANGED buildVars /\ UNCHANGED sigVars

\* generate.rs:82-156  DocusaurusOptions::generate_with_glossary on the built
\* tree: the glossary of the items of the outer module, and the documents
GenerateWithGlossary ==
    /\ Exported
    /\ \E slug \in {None, Some(SLUG_DOCS)} :
          /\ glossary_document' = Some(render_glossary(Unwrap(tree_result).v, slug))
          /\ documents' = Some(Ok(generate(Unwrap(tree_result).v, slug)))
    /\ tpc' = "rendered"
    /\ UNCHANGED <<json_fns, tree_options, tree_metadata, stack, tree_result, gstack, tree_glossary>>
    /\ UNCHANGED scanVars /\ UNCHANGED rtVars /\ UNCHANGED buildVars /\ UNCHANGED sigVars

----------------------------------------------------------------------------
(* generate_module_glossary_inner over a module with sub-modules                *)
(* (module.rs:202-330): one frame of gstack per call in progress. Its one       *)
(* caller is export_with_glossary (export.rs:79-82), which calls it once the    *)
(* documentation call has returned Ok                                           *)

\* one call of generate_module_glossary_inner: its name and namespace
\* (module.rs:212-213), its metadata, where it is, the items of its custom types,
\* its function groups, mg.content, and the keys of metadata.modules its loop has
\* not visited
GlossaryFrame(namespace, name, md) ==
    [name |-> name,
     namespace |-> IF IsSome(namespace) THEN Unwrap(namespace) ELSE name,
     metadata |-> md, phase |-> "types", types |-> <<>>, groups |-> <<>>,
     content |-> <<>>, pending |-> DOMAIN md.modules]

Glossing == gstack # <<>>
GTop == gstack[Len(gstack)]

\* export.rs:81 and module.rs:187-199  generate_module_glossary: the outer call,
\* on the global module. It asks the same engine for the text again and decodes
\* it again (module.rs:191-196): the text that decoded to tree_metadata for the
\* documentation call, so neither error return is taken
GlossaryStart ==
    /\ tpc = "built" /\ gstack = <<>> /\ tree_glossary = None
    /\ gstack' = <<GlossaryFrame(None, GLOBAL, tree_metadata)>>
    /\ UNCHANGED <<json_fns, tree_options, tree_metadata, stack, tree_result, documents, tpc,
                   tree_glossary>>
    /\ UNCHANGED glossary_document
    /\ UNCHANGED scanVars /\ UNCHANGED rtVars /\ UNCHANGED buildVars /\ UNCHANGED sigVars

\* module.rs:214-224: the custom types of the call at the top of gstack are
\* collected, then group_functions; the error of a custom type is returned by
\* the call and, through the ? of every caller, by the outer call
GlossaryCollectTypes ==
    /\ Glossing /\ GTop.phase = "types"
    /\ LET r == ModuleTypes(tree_options, GTop.metadata) IN
       IF r.ok
       THEN /\ gstack' = [gstack EXCEPT
                             ![Len(gstack)].types = r.v,
                             ![Len(gstack)].groups = group_functions(GTop.metadata.functions),
                             ![Len(gstack)].phase = "functions"]
            /\ UNCHANGED tree_glossary
       ELSE /\ tree_glossary' = Some(r)
            /\ gstack' = <<>>
    /\ UNCHANGED <<json_fns, tree_options, tree_metadata, stack, tree_result, documents, tpc>>
    /\ UNCHANGED glossary_document
    /\ UNCHANGED scanVars /\ UNCHANGED rtVars /\ UNCHANGED buildVars /\ UNCHANGED sigVars

\* module.rs:225-310: the function groups, iterated in any order, are collected;
\* their first error is returned through every caller, else mg.content is the
\* heading of the module and the signatures of its ordered items
GlossaryCollectFunctions ==
    /\ Glossing /\ GTop.phase = "functions"
    /\ \E keys \in Iterations(DOMAIN GTop.groups) :
          LET r == GlossaryOf(tree_options, GTop.name, Ok(GTop.types),
                              GlossaryFunctions(tree_options, GTop.groups, keys)) IN
          IF r.ok
          THEN /\ gstack' = [gstack EXCEPT ![Len(gstack)].content = r.v.content,
                                           ![Len(gstack)].phase = "modules"]
               /\ UNCHANGED tree_glossary
          ELSE /\ tree_glossary' = Some(r)
               /\ gstack' = <<>>
    /\ UNCHANGED <<json_fns, tree_options, tree_metadata, stack, tree_result, documents, tpc>>
    /\ UNCHANGED glossary_document
    /\ UNCHANGED scanVars /\ UNCHANGED rtVars /\ UNCHANGED buildVars /\ UNCHANGED sigVars

\* module.rs:313-322: the next entry of metadata.modules is decoded and the call
\* for the sub-module starts; when it does not decode, the error is returned by
\* the call and, through the ? of every caller, by the outer call
GlossaryEnterSubModule ==
    /\ Glossing /\ GTop.phase = "modules"
    /\ \E sub_module \in GTop.pending :
          \E decoded \in {from_value(GTop.metadata.modules[sub_module])} :
          IF decoded.ok
          THEN /\ gstack' = Append([gstack EXCEPT ![Len(gstack)].pending = @ \ {sub_module}],
                                   GlossaryFrame(Some(SubNamespace(GTop.namespace, sub_module)),
                                                 sub_module, decoded.v))
               /\ UNCHANGED tree_glossary
          ELSE /\ tree_glossary' = Some(decoded)
               /\ gstack' = <<>>
    /\ UNCHANGED <<json_fns, tree_options, tree_metadata, stack, tree_result, documents, tpc>>
    /\ UNCHANGED glossary_document
    /\ UNCHANGED scanVars /\ UNCHANGED rtVars /\ UNCHANGED buildVars /\ UNCHANGED sigVars

\* module.rs:315-329: the call for a sub-module returns Ok(mg), and its caller
\* appends mg.content to its own
GlossaryReturnSubModule ==
    /\ Glossing /\ GTop.phase = "modules" /\ GTop.pending = {}
    /\ Len(gstack) > 1
    /\ gstack' = [SubSeq(gstack, 1, Len(gstack) - 1) EXCEPT
                     ![Len(gstack) - 1].content = @ \o GTop.content]
    /\ UNCHANGED <<json_fns, tree_options, tree_metadata, stack, tree_result, documents, tpc,
                   tree_glossary>>
    /\ UNCHANGED glossary_document
    /\ UNCHANGED scanVars /\ UNCHANGED rtVars /\ UNCHANGED buildVars /\ UNCHANGED sigVars

\* module.rs:329  the outer call returns Ok(mg)
GlossaryReturnRoot ==
    /\ Glossing /\ GTop.phase = "modules" /\ GTop.pending = {}
    /\ Len(gstack) = 1
    /\ tree_glossary' = Some(Ok([content |-> GTop.content]))
    /\ gstack' = <<>>
    /\ UNCHANGED <<json_fns, tree_options, tree_metadata, stack, tree_result, documents, tpc>>
    /\ UNCHANGED glossary_document
    /\ UNCHANGED scanVars /\ UNCHANGED rtVars /\ UNCHANGED buildVars /\ UNCHANGED sigVars

----------------------------------------------------------------------------
(* Inputs of the tree builder *)

\* the number of JSON values in the metadata of the global module, itself included
MaxNodes == 3

KEY_A == <<"a">>
KEY_B == <<"b">>
ModuleKeys == {KEY_A, KEY_B}

\* Option<T> written as JSON: None is null
EncodeOption(o, Encode(_)) == IF IsSome(o) THEN Encode(Unwrap(o)) ELSE JSON_NULL
\* Vec<String> written as JSON
EncodeStrings(v) == JsonArray([k \in 1..Len(v) |-> JsonString(v[k])])
\* a parameter descriptor written as JSON: the entries it holds
EncodeParam(p) ==
    JsonObject([key \in {k \in {KEY_NAME, KEY_TYPE} :
                            IsSome(IF k = KEY_NAME THEN p.name ELSE p.type)} |->
                   JsonString(Unwrap(IF key = KEY_NAME THEN p.name ELSE p.type))])
EncodeParams(v) == JsonArray([k \in 1..Len(v) |-> EncodeParam(v[k])])

\* the object that holds the values under the keys
ObjectOf(keys, values) ==
    JsonObject([key \in {keys[k] : k \in 1..Len(keys)} |->
                   values[CHOOSE k \in 1..Len(keys) : keys[k] = key]])

\* function.rs:5-18: the values of the ten fields of a function as the engine
\* writes them, a public function of the global namespace
FunctionValues(m) ==
    <<JsonString(<<"p", "u", "b", "l", "i", "c">>), JsonNumber(0), JsonNumber(0),
      JsonString(m.name), JsonString(GLOBAL), JsonNumber(m.num_params),
      EncodeOption(m.params, EncodeParams), JsonString(<<>>),
      EncodeOption(m.return_type, JsonString), EncodeOption(m.doc_comments, EncodeStrings)>>

\* custom_types.rs:1-10: the values of the three fields of a custom type
CustomTypeValues(ty) ==
    <<JsonString(ty.type_name), JsonString(ty.display_name),
      EncodeOption(ty.doc_comments, EncodeStrings)>>

\* the documented function f as an object and as the array of its fields, the
\* function h whose directive is no integer as the array of its fields, the
\* custom type V whose directive is no integer as an object
JSON_F == ObjectOf(FunctionFields, FunctionValues(FN_F_DOC))
JSON_F_ARRAY == JsonArray(FunctionValues(FN_F_DOC))
JSON_H_ARRAY == JsonArray(FunctionValues(FN_H_BAD))
JSON_V == ObjectOf(CustomTypeFields, CustomTypeValues(CT_V_BAD))
\* the function f in nine values: its array without the doc comments
JSON_F_SHORT == JsonArray(SubSeq(FunctionValues(FN_F_DOC), 1, 9))

\* the functions and custom types of a module: none, the function f, the
\* function h, or the custom type V
ModuleContents ==
    { [functions |-> <<>>, custom_types |-> <<>>],
      [functions |-> <<JSON_F>>, custom_types |-> <<>>],
      [functions |-> <<JSON_H_ARRAY>>, custom_types |-> <<>>],
      [functions |-> <<>>, custom_types |-> <<JSON_V>>] }

\* the JSON object of a module
JsonModule(content, modules) ==
    JsonObject([k \in {KEY_FUNCTIONS, KEY_CUSTOM_TYPES, KEY_MODULES} |->
                   IF k = KEY_FUNCTIONS THEN JsonArray(content.functions)
                   ELSE IF k = KEY_CUSTOM_TYPES THEN JsonArray(content.custom_types)
                   ELSE JsonObject(modules)])

\* the module of the function f written as the array of its four fields, the
\* function as the array of its ten
JSON_ARRAY_MODULE == JsonArray(<<JSON_NULL, JsonArray(<<JSON_F_ARRAY>>), JSON_NULL, JSON_NULL>>)
\* an object whose field functions holds a number
JSON_BAD_FIELD == JsonObject([k \in {KEY_FUNCTIONS} |-> JSON_NUMBER])
\* an object whose field functions holds a function that does not decode
JSON_BAD_ELEMENT == JsonObject([k \in {KEY_FUNCTIONS} |-> JsonArray(<<JSON_F_SHORT>>)])

\* the JSON values a key of "modules" can hold, made of at most n values
RECURSIVE ModuleValues(_)
ModuleValues(n) ==
    IF n = 0 THEN {}
    ELSE LET one == UNION {{[k \in {key} |-> v] : v \in ModuleValues(n - 1)} :
                            key \in ModuleKeys}
             two == UNION {{[k \in ModuleKeys |-> IF k = KEY_A THEN va ELSE vb] :
                              va \in ModuleValues(i), vb \in ModuleValues(n - 1 - i)} :
                            i \in 1..(n - 2)}
         IN  {JSON_NUMBER, JSON_ARRAY_MODULE, JSON_BAD_FIELD, JSON_BAD_ELEMENT}
             \cup {JsonModule(c, m) : c \in ModuleContents, m \in {<<>>} \cup one \cup two}

\* the values of engine.gen_fn_metadata_to_json: an error, or a text; the text
\* holds the metadata of the global module, a JSON value that is not the metadata
\* of a module, or no JSON document
EngineResults ==
    {Err("serde_json::Error")} \cup {Ok(text) : text \in ModuleValues(MaxNodes) \cup {NOT_JSON}}

\* module.rs:70-76: generate_module_documentation on entry, the engine having
\* answered gen_fn_metadata_to_json
InitTree ==
    /\ tree_options \in [items_order : {"Alphabetical", "ByIndex"}]
    /\ json_fns \in {Some(r) : r \in EngineResults}
    /\ tree_metadata = [doc |-> None, functions |-> <<>>, custom_types |-> <<>>,
                        modules |-> <<>>]
    /\ stack = <<>>
    /\ tree_result = None
    /\ documents = None
    /\ tpc = "start"
    /\ gstack = <<>> /\ tree_glossary = None /\ glossary_document = None
    /\ ScanIdle /\ RtIdle /\ BuildIdle /\ SigIdle

NextTree ==
    \/ FailMetadata \/ FailParse \/ EnterRoot
    \/ BuildTypes \/ FailItems \/ BuildItems \/ EnterSubModule \/ FailDecode
    \/ ReturnSubModule \/ ReturnRoot \/ Generate \/ GenerateWithGlossary
    \/ GlossaryStart \/ GlossaryCollectTypes \/ GlossaryCollectFunctions
    \/ GlossaryEnterSubModule \/ GlossaryReturnSubModule \/ GlossaryReturnRoot

SpecTree == InitTree /\ [][NextTree]_vars

----------------------------------------------------------------------------
(* Properties of the documentation tree and of its documents *)

Built == tpc \in {"built", "rendered"}
Tree == Unwrap(tree_result).v

\* the node md was built from the metadata meta: one sub-module per key of
\* meta.modules, named by the key, its namespace being the namespace of md, a
\* slash and the key; and so on below
RECURSIVE WellNamed(_, _)
WellNamed(md, meta) ==
    /\ Len(md.sub_modules) = Cardinality(DOMAIN meta.modules)
    /\ {md.sub_modules[k].name : k \in 1..Len(md.sub_modules)} = DOMAIN meta.modules
    /\ \A k \in 1..Len(md.sub_modules) :
          LET sub == md.sub_modules[k] IN
          /\ sub.namespace = md.namespace \o <<"/">> \o sub.name
          /\ WellNamed(sub, from_value(meta.modules[sub.name]).v)

\* C21: the root of the tree has name global and namespace global; every other
\* node is named by its key in the modules map of its parent and its namespace is
\* the namespace of its parent, a slash and its name.
C21_Namespaces ==
    Built =>
        /\ Tree.name = GLOBAL
        /\ Tree.namespace = GLOBAL
        /\ WellNamed(Tree, tree_metadata)

\* C21 witness: a tree with the node global/a/b was built
C21_Witness ==
    /\ Built
    /\ \E i \in 1..Len(Tree.sub_modules) :
          /\ Tree.sub_modules[i].name = KEY_A
          /\ \E j \in 1..Len(Tree.sub_modules[i].sub_modules) :
                /\ Tree.sub_modules[i].sub_modules[j].name = KEY_B
                /\ Tree.sub_modules[i].sub_modules[j].namespace
                      = GLOBAL \o <<"/">> \o KEY_A \o <<"/">> \o KEY_B

\* the four values are values of the fields of a module: a string, two arrays
\* of records and an object, or null in their place
FieldsOfModule(doc, functions, custom_types, modules) ==
    /\ doc.json \in {"null", "string"}
    /\ DecodeOption(functions, DecodeFunctions).ok
    /\ DecodeOption(custom_types, DecodeCustomTypes).ok
    /\ modules.json \in {"null", "object"}

\* the JSON value is the metadata of a module: an object of the fields of a
\* module, or the array of its four fields
IsModuleJson(value) ==
    \/ /\ value.json = "object"
       /\ FieldsOfModule(FieldOf(value.o, KEY_DOC), FieldOf(value.o, KEY_FUNCTIONS),
                         FieldOf(value.o, KEY_CUSTOM_TYPES), FieldOf(value.o, KEY_MODULES))
    \/ /\ value.json = "array" /\ Len(value.a) = 4
       /\ FieldsOfModule(value.a[1], value.a[2], value.a[3], value.a[4])

\* the sub-modules of a JSON value that is the metadata of a module
SubModulesOf(value) ==
    LET modules == IF value.json = "object" THEN FieldOf(value.o, KEY_MODULES)
                   ELSE value.a[4]
    IN  IF modules.json = "null" THEN <<>> ELSE modules.o

\* some value of the map modules, or of the sub-modules of one of its values, at
\* any depth, is not the metadata of a module
RECURSIVE HasUndecodable(_)
HasUndecodable(modules) ==
    \E key \in DOMAIN modules :
        \/ ~IsModuleJson(modules[key])
        \/ HasUndecodable(SubModulesOf(modules[key]))

\* C22: when a sub-module at any depth does not decode, the outer call returns an
\* error and no tree, and nothing is rendered.
C22_DecodeFailureAborts ==
    (tpc \notin {"start", "build"} /\ HasUndecodable(tree_metadata.modules)) =>
        /\ tpc = "failed"
        /\ ~Unwrap(tree_result).ok
        /\ DOMAIN Unwrap(tree_result) = {"ok", "e"}
        /\ documents = None

\* C22 witness: the sub-module global/a/b did not decode, after the items of
\* global and of global/a were built, and the outer call returned the decode error
C22_Witness ==
    /\ tpc = "failed"
    /\ Unwrap(tree_result) = Err("ParseModuleMetadata")
    /\ DOMAIN tree_metadata.modules = {KEY_A}
    /\ LET a == from_value(tree_metadata.modules[KEY_A]) IN
       /\ a.ok
       /\ a.v.functions # <<>>
       /\ DOMAIN a.v.modules = {KEY_B}
       /\ a.v.modules[KEY_B] = JSON_NUMBER

\* the nodes of the tree md
RECURSIVE NodesOf(_)
NodesOf(md) == {md} \cup UNION {NodesOf(md.sub_modules[k]) : k \in 1..Len(md.sub_modules)}

\* C30: the map of generate holds one document per node of the tree, under the
\* name of the node and rendered from that node.
C30_OneDocumentPerNode ==
    tpc = "rendered" =>
        LET docs == Unwrap(documents).v IN
        /\ Cardinality(DOMAIN docs) = Cardinality(NodesOf(Tree))
        /\ \A node \in NodesOf(Tree) :
              /\ node.name \in DOMAIN docs
              /\ docs[node.name].title = node.name
              /\ docs[node.name].namespace = node.namespace
              /\ docs[node.name].items = SerializedItems(node.items)

====
